---------------------------- MODULE Spec2Model ----------------------------
(***************************************************************************)
(* DataLik: the table-admin and metrics layer.                             *)
(*                                                                         *)
(*   utils/database.py        DatabaseManager: get_table_data,             *)
(*                            execute_query, get_business_metrics          *)
(*   modules/database_admin.py  show_database_admin (View Data, Custom     *)
(*                            Query), show_database_backup (backup,        *)
(*                            restore)                                     *)
(*   utils/data_processor.py  get_kpi_metrics                              *)
(*                                                                         *)
(* The database engine, the SQL driver and the widget framework are        *)
(* services outside the repository.  A statement sent to the database      *)
(* either takes effect or raises; which of the two is an input of every    *)
(* action that sends one.  Rows come back in the table's stored order,     *)
(* which only a write changes.                                             *)
(***************************************************************************)
EXTENDS Integers, Sequences, FiniteSets, TLC

VARIABLES
    tables,           \* committed rows of each admin table: name -> sequence of rows
    ui,               \* messages the current run has shown to the operator
    backup_json,      \* the document offered for download by the last backup run
    uploaded_backup,  \* the document handed to the last restore run
    restored_tables,  \* restored_tables of the last restore run
    run,              \* which handler ran last, and with which inputs
    view,             \* the page the View Data tab fetched last since the last write
    prev_view,        \* the page it fetched before that one, if of the same table at
                      \* the same page size and also since the last write
    result_df,        \* the dataframe the Custom Query tab displayed
    biz,              \* rows of the five business tables the dashboard aggregates
    metrics,          \* what get_business_metrics returned
    data,             \* the dataframe handed to get_kpi_metrics
    kpi,              \* what get_kpi_metrics returned
    sessions,         \* the database sessions that are open: [user, op]
    pc,               \* per user: the with-block the run is in, and how the last one ended
    app,              \* one browser session of app.py: st.session_state and the last run
    session_state     \* the modules' entries of st.session_state: sales_data, finance_data

vars == <<tables, ui, backup_json, uploaded_backup, restored_tables,
          run, view, prev_view, result_df, biz, metrics, data, kpi, sessions, pc, app, session_state>>

-----------------------------------------------------------------------------
(* Bounds of the model *)

MaxId == 2          \* key values of the rows of an admin table: 1..MaxId
MaxBrowseRows == 12 \* rows of the table the View Data tab pages through
MaxBizRows == 2     \* rows of each business table
MaxDataRows == 2    \* rows of the dataframe given to get_kpi_metrics
MaxStmts == 2       \* statements in one Custom Query text

-----------------------------------------------------------------------------
(* Values.  Every value is a record [t, v]: t names the type, v the content. *)

Null == [t |-> "null", v |-> 0]                 \* SQL NULL, Python None, JSON null
IntV(n) == [t |-> "int", v |-> n]               \* INTEGER, Python int
DecV(n) == [t |-> "decimal", v |-> n]           \* DECIMAL, decimal.Decimal
DateV(n) == [t |-> "date", v |-> n]             \* DATE, datetime.date
FloatV(n) == [t |-> "float", v |-> n]           \* float64 holding the integer n
NaN == [t |-> "nan", v |-> 0]                   \* float64 NaN
StrOfDec(n) == [t |-> "str_decimal", v |-> n]   \* str(Decimal)
StrOfDate(n) == [t |-> "str_date", v |-> n]     \* str(date)

(* The admin tables of the model and their columns: an INTEGER key, a      *)
(* nullable INTEGER, a DATE and a DECIMAL column, the column kinds of the  *)
(* schema (employees.id, manager_id, hire_date, salary).                   *)
TableNames == {"customers", "employees"}
Columns == {"id", "manager_id", "hire_date", "salary"}
ColumnType == [id |-> "int", manager_id |-> "int", hire_date |-> "date", salary |-> "decimal"]

Rows == { [id |-> IntV(i), manager_id |-> m, hire_date |-> h, salary |-> s] :
            i \in 1..MaxId, m \in {Null, IntV(1)}, h \in {Null, DateV(1)}, s \in {DecV(1)} }

Range(s) == { s[i] : i \in 1..Len(s) }

(* Sequences of at most n rows of S with pairwise distinct keys. *)
KeyedSeqs(S, n) ==
    UNION { { s \in [1..k -> S] : \A i, j \in 1..k : i # j => s[i].id # s[j].id } : k \in 0..n }

-----------------------------------------------------------------------------
(* SQL texts.  A text is a sequence of statements; a statement is          *)
(* [op, table, row]: SELECT * FROM table, DELETE FROM table (no WHERE), or *)
(* INSERT INTO table of the given row (row is unused by the other two).    *)

NoRow == [id |-> Null, manager_id |-> Null, hire_date |-> Null, salary |-> Null]
Select(t) == [op |-> "select", table |-> t, row |-> NoRow]
Delete(t) == [op |-> "delete", table |-> t, row |-> NoRow]
Insert(t, r) == [op |-> "insert", table |-> t, row |-> r]

(* One statement inside the session's open transaction: the transaction's  *)
(* view of the tables after it, whether it raised (and the database's      *)
(* message e), and the rows it returns.  An INSERT of a key the table      *)
(* already holds violates the primary key.                                 *)
ApplyStmt(txn, st) ==
    CASE st.op = "select" ->
            [ok |-> TRUE, e |-> "", tables |-> txn, returns_rows |-> TRUE,
             rows |-> txn[st.table]]
      [] st.op = "delete" ->
            [ok |-> TRUE, e |-> "", tables |-> [txn EXCEPT ![st.table] = <<>>],
             returns_rows |-> FALSE, rows |-> <<>>]
      [] OTHER ->
            IF \E i \in 1..Len(txn[st.table]) : txn[st.table][i].id = st.row.id
            THEN [ok |-> FALSE, e |-> "duplicate key", tables |-> txn,
                  returns_rows |-> FALSE, rows |-> <<>>]
            ELSE [ok |-> TRUE, e |-> "",
                  tables |-> [txn EXCEPT ![st.table] = Append(@, st.row)],
                  returns_rows |-> FALSE, rows |-> <<>>]

(* session.execute(text(query)): the statements run in order in the open   *)
(* transaction and the first one that raises ends the call, the effects of *)
(* the earlier ones still pending in the transaction.                      *)
RECURSIVE SessionExecute(_, _)
SessionExecute(txn, stmts) ==
    IF stmts = <<>>
    THEN [ok |-> TRUE, e |-> "", tables |-> txn, returns_rows |-> FALSE, rows |-> <<>>]
    ELSE LET r == ApplyStmt(txn, Head(stmts))
         IN IF ~r.ok \/ Len(stmts) = 1 THEN r ELSE SessionExecute(r.tables, Tail(stmts))

(* session.commit() publishes the transaction; session.rollback() drops it. *)
CommitDiscards(committed, txn) == committed
Commit(committed, txn) == txn
RollbackKeepsPending(committed, txn) == txn
Rollback(committed, txn) == committed

None == [none |-> TRUE, returns_rows |-> FALSE, rows |-> <<>>]

(* A message shown to the operator: the widget's text and the exception    *)
(* text formatted into it (about: the table it names, if any).             *)
Msg(m, about, detail) == [msg |-> m, about |-> about, detail |-> detail]

(* DatabaseManager.execute_query: execute, commit, return the result; on   *)
(* any exception roll back, show "Query execution error: {e}" and return   *)
(* None.  db_ok is the database's part: FALSE when it raises for a reason  *)
(* of its own ("database error") after the statements ran.                 *)
execute_query(tbls, stmts, db_ok) ==
    LET r == SessionExecute(tbls, stmts)
    IN IF r.ok /\ db_ok
       THEN [result |-> [none |-> FALSE, returns_rows |-> r.returns_rows, rows |-> r.rows],
             tables |-> Commit(tbls, r.tables), error |-> FALSE, e |-> "", shown |-> {}]
       ELSE LET e == IF r.ok THEN "database error" ELSE r.e
            IN [result |-> None, tables |-> Rollback(tbls, r.tables), error |-> TRUE,
                e |-> e, shown |-> {Msg("Query execution error", "", e)}]

(* No handler has run yet; no document has been made or uploaded. *)
NoRun == [handler |-> "none"]
NoSessionState == [sales_data |-> [set |-> FALSE], finance_data |-> [set |-> FALSE]]
NoDoc == [made |-> FALSE, entries |-> <<>>]

Min(a, b) == IF a <= b THEN a ELSE b
Max(a, b) == IF a >= b THEN a ELSE b

(* The rows of SELECT * FROM table LIMIT size OFFSET offset. *)
LimitOffsetInclusive(rows, size, offset) ==
    SubSeq(rows, offset + 1, Min(Len(rows), offset + size + 1))
LimitOffset(rows, size, offset) == SubSeq(rows, offset + 1, Min(Len(rows), offset + size))

(* DatabaseManager.get_table_data: every row, or with limit = [size,       *)
(* offset] the rows of "LIMIT size OFFSET offset"; on an exception the     *)
(* error is shown and an empty dataframe returned.  limit.size = 0 stands  *)
(* for limit=None.                                                         *)
NoLimit == [size |-> 0, offset |-> 0]
get_table_data(tbls, table_name, limit, db_ok) ==
    IF ~db_ok
    THEN [df |-> <<>>, error |-> TRUE,
          shown |-> {Msg("Error fetching data from", table_name, "database error")}]
    ELSE [df |-> IF limit = NoLimit THEN tbls[table_name]
                 ELSE LimitOffset(tbls[table_name], limit.size, limit.offset),
          error |-> FALSE, shown |-> {}]

-----------------------------------------------------------------------------
(* show_database_admin: one run of the page.  Every tab's code runs in     *)
(* every run: the overview query, the View Data page fetch, the Table Info *)
(* query, then the Add Record form or the Custom Query button if clicked.  *)

PageSizes == {10, 25, 50, 100}
QueryTypes == {"SELECT (Read)", "INSERT (Create)", "UPDATE (Modify)", "DELETE (Remove)"}
Clicks == {"none", "add", "execute"}
FailPoints == {"overview", "count", "fetch", "columns", "execute"}
(* The sets of failing calls that differ in what the run does: a failing   *)
(* overview, count or Table Info query ends the run at the outer except.   *)
FailSets == { F \in SUBSET FailPoints :
                /\ "overview" \in F => F = {"overview"}
                /\ "count" \in F => F = {"count"}
                /\ "columns" \in F => "execute" \notin F }

(* total_pages = (total_count + page_size - 1) // page_size *)
TotalPagesFloor(total_count, page_size) == total_count \div page_size
TotalPages(total_count, page_size) == (total_count + page_size - 1) \div page_size
(* offset = (page_num - 1) * page_size *)
OffsetOverlapping(page_num, page_size) == (page_num - 1) * (page_size - 1)
Offset(page_num, page_size) == (page_num - 1) * page_size

NoView == [table |-> "", page_size |-> 0, page_num |-> 0, total_count |-> 0,
           total_pages |-> 0, offset |-> 0, rows |-> <<>>, error |-> FALSE]
NoDf == [shown |-> FALSE, rows |-> <<>>, columns |-> {}]
NotExecuted == [result |-> None, tables |-> <<>>, error |-> FALSE, e |-> "", shown |-> {}]

(* The outer except of the page: line 269. *)
ConnectionError == {Msg("Database connection error", "", "database error"),
                    Msg("Please check your database configuration and try again.", "", "")}

(* The View Data tab: the row count, then the page of page_size rows at   *)
(* offset.                                                                 *)
ViewData(tbls, selected_table, page_size, page_num, db_ok) ==
    LET total_count == Len(tbls[selected_table])
        offset == Offset(page_num, page_size)
        fetched == get_table_data(tbls, selected_table,
                                  [size |-> page_size, offset |-> offset], db_ok)
    IN [view |-> [table |-> selected_table, page_size |-> page_size, page_num |-> page_num,
                  total_count |-> total_count,
                  total_pages |-> TotalPages(total_count, page_size),
                  offset |-> offset, rows |-> fetched.df, error |-> fetched.error],
        shown |-> fetched.shown \cup
                  (IF fetched.df = <<>> THEN {Msg("No data found in", selected_table, "")}
                   ELSE {})]

(* The Custom Query tab after the button: what is shown for the result of  *)
(* execute_query.  With Query Type SELECT a result is fetched; fetching a  *)
(* result that returns no rows raises and the tab's except shows it.       *)
CustomQueryShownByText(query_type, custom_query, exec) ==
    IF custom_query.stmts # <<>> /\ custom_query.stmts[Len(custom_query.stmts)].op = "select"
    THEN IF ~exec.result.none /\ exec.result.rows # <<>>
         THEN [df |-> [shown |-> TRUE, rows |-> exec.result.rows, columns |-> Columns],
               shown |-> {}]
         ELSE [df |-> NoDf, shown |-> {Msg("Query executed successfully.", "", "")}]
    ELSE [df |-> NoDf, shown |-> {Msg("Query executed successfully!", "", "")}]
CustomQueryShown(query_type, custom_query, exec) ==
    IF query_type = "SELECT (Read)"
    THEN IF ~exec.result.none
         THEN IF ~exec.result.returns_rows
              THEN [df |-> NoDf,
                    shown |-> {Msg("Query error", "", "result does not return rows")}]
              ELSE IF exec.result.rows # <<>>
                   THEN [df |-> [shown |-> TRUE, rows |-> exec.result.rows,
                                 columns |-> Columns],
                         shown |-> {}]
                   ELSE [df |-> NoDf,
                         shown |-> {Msg("Query executed successfully. No results returned.",
                                        "", "")}]
         ELSE [df |-> NoDf, shown |-> {Msg("Query executed successfully.", "", "")}]
    ELSE [df |-> NoDf,
          shown |-> {Msg("Query executed successfully!", "", ""),
                     Msg("Data modified. Refresh the View Data tab to see changes.", "", "")}]

(* The Add Record tab has a form for three tables; for any other table it *)
(* shows "Custom form for {selected_table} not implemented".               *)
FormTablesAny == {"customers", "inventory", "employees", "audit_log"}
FormTables == {"customers", "inventory", "employees"}

(* The whole run.  fails: the calls on which the database raises. *)
AdminRun(tbls, selected_table, page_size, page_num, click, query_type, custom_query, row, fails) ==
    LET aborted == [tables |-> tbls, ui |-> ConnectionError, view |-> NoView,
                    fetched |-> FALSE, df |-> NoDf, exec |-> NotExecuted,
                    executed |-> FALSE]
        vd == ViewData(tbls, selected_table, page_size, page_num, "fetch" \notin fails)
        shown1 == [aborted EXCEPT !.ui = vd.shown, !.view = vd.view, !.fetched = TRUE]
    IN IF "overview" \in fails \/ "count" \in fails THEN aborted
       ELSE IF "columns" \in fails THEN [shown1 EXCEPT !.ui = vd.shown \cup ConnectionError]
       ELSE IF click = "add" /\ selected_table \notin FormTables
       THEN [shown1 EXCEPT !.ui = vd.shown \cup {Msg("Custom form not implemented",
                                                      selected_table, "")}]
       ELSE IF click = "add"
       THEN LET exec == execute_query(tbls, <<Insert(selected_table, row)>>,
                                      "execute" \notin fails)
            IN [shown1 EXCEPT !.tables = exec.tables,
                              !.ui = vd.shown \cup exec.shown
                                     \cup {Msg("added successfully!", selected_table, "")},
                              !.exec = exec, !.executed = TRUE]
       ELSE IF click = "execute"
       THEN IF custom_query.blank
            THEN [shown1 EXCEPT !.ui = vd.shown \cup {Msg("Please enter a SQL query.", "", "")}]
            ELSE LET exec == execute_query(tbls, custom_query.stmts, "execute" \notin fails)
                     out == CustomQueryShown(query_type, custom_query, exec)
                 IN [shown1 EXCEPT !.tables = exec.tables,
                                   !.ui = vd.shown \cup exec.shown \cup out.shown,
                                   !.df = out.df, !.exec = exec, !.executed = TRUE]
       ELSE shown1

(* The statements and texts the operator types in the model: the rows of   *)
(* the tables are ConsoleRows, the row an INSERT adds has key 1.           *)
ConsoleRows == { r \in Rows : r.manager_id = Null /\ r.hire_date = Null }
InsertRows == { r \in ConsoleRows : r.id = IntV(1) }
Statements == { Select(t) : t \in TableNames } \cup { Delete(t) : t \in TableNames }
              \cup { Insert(t, r) : t \in TableNames, r \in InsertRows }
ConsoleTexts == { [blank |-> TRUE, stmts |-> <<>>] }
                \cup { [blank |-> FALSE, stmts |-> st] :
                         st \in UNION { [1..k -> Statements] : k \in 0..MaxStmts } }

show_database_admin(selected_table, page_size, page_num, click, query_type, custom_query, row, fails) ==
    LET out == AdminRun(tables, selected_table, page_size, page_num, click, query_type,
                        custom_query, row, fails)
    IN /\ page_num \in 1..Max(1, TotalPages(Len(tables[selected_table]), page_size))
       /\ tables' = out.tables
       /\ ui' = out.ui
       /\ result_df' = out.df
       /\ run' = [handler |-> "admin", selected_table |-> selected_table, click |-> click,
                  query_type |-> query_type, custom_query |-> custom_query,
                  executed |-> out.executed, error |-> out.exec.error, e |-> out.exec.e,
                  result |-> out.exec.result]
       /\ IF out.tables # tables
          THEN view' = NoView /\ prev_view' = NoView
          ELSE IF out.fetched /\ ~out.view.error /\ click = "none"
               THEN /\ view' = out.view
                    /\ prev_view' = IF view.table = out.view.table
                                       /\ view.page_size = out.view.page_size
                                    THEN view ELSE NoView
               ELSE UNCHANGED <<view, prev_view>>
       /\ UNCHANGED <<backup_json, uploaded_backup, restored_tables, biz, metrics, data, kpi,
                      sessions, pc, app, session_state>>

-----------------------------------------------------------------------------
(* show_database_backup: the backup branch.  A document is the parsed JSON *)
(* value: a sequence of entries [table, records] in the order of the       *)
(* mapping's keys; a record is [dict |-> TRUE, fields] with fields the     *)
(* mapping of its keys to JSON values, or [dict |-> FALSE] for a JSON      *)
(* value that is no object.                                                *)

(* pd.DataFrame(data, columns=columns): an INTEGER column that holds both  *)
(* NULLs and numbers becomes a float column, NULL turning into NaN; every  *)
(* other column keeps the values the driver returned.                      *)
DfColumnIsFloat(df, c) ==
    /\ ColumnType[c] = "int"
    /\ \E i \in 1..Len(df) : df[i][c] = Null
    /\ \E i \in 1..Len(df) : df[i][c] # Null
DfCell(df, i, c) ==
    IF DfColumnIsFloat(df, c)
    THEN (IF df[i][c] = Null THEN NaN ELSE FloatV(df[i][c].v))
    ELSE df[i][c]

(* df.to_dict('records') *)
to_dict(df) == [i \in 1..Len(df) |-> [c \in Columns |-> DfCell(df, i, c)]]

(* json.dumps(..., default=str): dates and decimals become their string   *)
(* form, numbers (NaN too) and null are written as they are.               *)
JsonDefault(v) ==
    CASE v.t = "date" -> StrOfDate(v.v)
      [] v.t = "decimal" -> StrOfDec(v.v)
      [] OTHER -> v
JsonRecord(rec) == [dict |-> TRUE, fields |-> [c \in DOMAIN rec |-> JsonDefault(rec[c])]]
json_dumps(backup_data) ==
    [i \in 1..Len(backup_data) |->
        [table |-> backup_data[i].table,
         records |-> [j \in 1..Len(backup_data[i].records) |->
                        JsonRecord(backup_data[i].records[j])]]]

(* The backup branch after the button: every selected table is fetched     *)
(* whole (a fetch that fails has shown its error and yields no records),   *)
(* the mapping is serialised and offered for download.  fetch_fails: the   *)
(* tables on whose SELECT the database raises.                             *)
Backup(tbls, backup_tables, fetch_fails) ==
    IF backup_tables = <<>>
    THEN [made |-> FALSE, entries |-> <<>>,
          shown |-> {Msg("Please select at least one table to backup.", "", "")}]
    ELSE LET fetched == [i \in 1..Len(backup_tables) |->
                           get_table_data(tbls, backup_tables[i], NoLimit,
                                          backup_tables[i] \notin fetch_fails)]
             backup_data == [i \in 1..Len(backup_tables) |->
                               [table |-> backup_tables[i],
                                records |-> to_dict(fetched[i].df)]]
         IN [made |-> TRUE, entries |-> json_dumps(backup_data),
             shown |-> UNION { fetched[i].shown : i \in 1..Len(backup_tables) }
                       \cup {Msg("Backup created successfully!", "", "")}]

(* The restore branch.  What an INSERT stores in a column for a JSON value: *)
(* a number in an INTEGER or DECIMAL column, the string form of a date or  *)
(* decimal parsed back, NULL for null and for a column the record does not *)
(* name; NaN in an INTEGER column and NULL as key are rejected.  Every     *)
(* record of the model names the key column.                               *)
Storable(c, v) ==
    CASE c = "id" -> v.t \in {"int", "float"}
      [] ColumnType[c] = "int" -> v.t \in {"int", "float", "null"}
      [] ColumnType[c] = "date" -> v.t \in {"date", "str_date", "null"}
      [] OTHER -> v.t \in {"decimal", "str_decimal", "int", "float", "null"}
Stored(c, v) ==
    CASE v.t = "null" -> Null
      [] ColumnType[c] = "int" -> IntV(v.v)
      [] ColumnType[c] = "date" -> DateV(v.v)
      [] OTHER -> DecV(v.v)
RecordStorable(fields) == \A c \in DOMAIN fields : Storable(c, fields[c])
RecordRow(fields) ==
    [c \in Columns |-> IF c \in DOMAIN fields THEN Stored(c, fields[c]) ELSE Null]

(* The statements of a restore on which the database may raise for a       *)
(* reason of its own: a table's DELETE, a table's INSERTs.                 *)
RestoreStatements == {"delete", "insert"} \X TableNames

(* for record in records: the INSERT of each record through execute_query, *)
(* which shows a failure and returns None; record.keys() of a value that   *)
(* is no object raises.  q: what execute_query did for the first record.   *)
RECURSIVE RestoreRecords(_, _, _, _)
AfterInsert(q, rest) ==
    [tables |-> rest.tables, shown |-> q.shown \cup rest.shown, raised |-> rest.raised]
InsertRecord(q, table_name, records, fails) ==
    AfterInsert(q, RestoreRecords(q.tables, table_name, Tail(records), fails))
RestoreRecords(tbls, table_name, records, fails) ==
    IF records = <<>> THEN [tables |-> tbls, shown |-> {}, raised |-> FALSE]
    ELSE IF ~Head(records).dict THEN [tables |-> tbls, shown |-> {}, raised |-> TRUE]
    ELSE InsertRecord(execute_query(tbls,
                                    <<Insert(table_name, RecordRow(Head(records).fields))>>,
                                    <<"insert", table_name>> \notin fails
                                    /\ RecordStorable(Head(records).fields)),
                      table_name, records, fails)

(* for table_name, records in backup_data.items(): DELETE, the INSERTs,    *)
(* restored_tables.append(table_name); the table's except shows "Error     *)
(* restoring" and skips the append.  del, ins, rest: what the DELETE, the  *)
(* INSERTs and the tables after this one did.                              *)
RECURSIVE RestoreTables(_, _, _)
AfterTable(table_name, del, ins, rest) ==
    [tables |-> rest.tables,
     restored_tables |-> (IF ins.raised THEN <<>> ELSE <<table_name>>) \o rest.restored_tables,
     shown |-> del.shown \cup ins.shown \cup rest.shown
               \cup (IF ins.raised THEN {Msg("Error restoring", table_name, "not a record")}
                     ELSE {})]
AfterRecords(del, ins, entries, fails) ==
    AfterTable(Head(entries).table, del, ins, RestoreTables(ins.tables, Tail(entries), fails))
AfterDelete(del, entries, fails) ==
    AfterRecords(del, RestoreRecords(del.tables, Head(entries).table, Head(entries).records,
                                     fails),
                 entries, fails)
RestoreTables(tbls, entries, fails) ==
    IF entries = <<>> THEN [tables |-> tbls, restored_tables |-> <<>>, shown |-> {}]
    ELSE AfterDelete(execute_query(tbls, <<Delete(Head(entries).table)>>,
                                   <<"delete", Head(entries).table>> \notin fails),
                     entries, fails)

(* if restored_tables: st.success(...) else: st.error(...) *)
Report(r) ==
    [tables |-> r.tables, restored_tables |-> r.restored_tables,
     shown |-> r.shown \cup (IF r.restored_tables # <<>>
                             THEN {Msg("Successfully restored tables", "", "")}
                             ELSE {Msg("No tables were restored successfully.", "", "")})]

(* The restore branch after the button.  Its first statement reads the     *)
(* name json, which is a local name of show_database_backup (the import    *)
(* statement in the backup branch makes it one) and is bound only once     *)
(* that import has run in the same call: json_bound.  Unbound, the read    *)
(* raises and the outer except shows "Error reading backup file".          *)
RestoreEmptiesAll(tbls, uploaded, json_bound, fails) ==
    [tables |-> [t \in DOMAIN tbls |-> <<>>], restored_tables |-> <<>>,
     shown |-> {Msg("No tables were restored successfully.", "", "")}]
Restore(tbls, uploaded, json_bound, fails) ==
    IF ~json_bound
    THEN [tables |-> tbls, restored_tables |-> <<>>,
          shown |-> {Msg("Error reading backup file", "", "json referenced before assignment")}]
    ELSE Report(RestoreTables(tbls, uploaded.entries, fails))

(* One run of the Backup & Restore tab.  click: the button pressed in this *)
(* run, at most one; b, r: what the backup branch and the restore branch   *)
(* do when they run.  backup_json also keeps, as source, the rows the      *)
(* tables held when the document was made.                                 *)
BackupClicks == {"none", "backup", "restore"}
BackupTab(click, backup_tables, fetch_fails, uploaded, fails, b, r) ==
    /\ backup_json' = IF click = "backup" /\ b.made
                      THEN [made |-> TRUE, entries |-> b.entries, source |-> tables]
                      ELSE backup_json
    /\ uploaded_backup' = IF click = "restore" THEN uploaded ELSE uploaded_backup
    /\ tables' = IF click = "restore" /\ uploaded.made THEN r.tables ELSE tables
    /\ restored_tables' = IF click = "restore" /\ uploaded.made THEN r.restored_tables
                          ELSE <<>>
    /\ ui' = (IF click = "backup" THEN b.shown ELSE {})
             \cup (IF click = "restore" /\ uploaded.made THEN r.shown ELSE {})
    /\ run' = [handler |-> "backup", click |-> click, backup_tables |-> backup_tables,
               fetch_fails |-> fetch_fails, fails |-> fails]
    /\ IF tables' # tables THEN view' = NoView /\ prev_view' = NoView
       ELSE UNCHANGED <<view, prev_view>>
    /\ UNCHANGED <<result_df, biz, metrics, data, kpi, sessions, app, session_state>>
(* import json has run in this call: the backup button with tables chosen. *)
JsonBound(click, backup_tables) == click = "backup" /\ backup_tables # <<>>
show_database_backup(click, backup_tables, fetch_fails, uploaded, fails) ==
    /\ BackupTab(click, backup_tables, fetch_fails, uploaded, fails,
                 Backup(tables, backup_tables, fetch_fails),
                 Restore(tables, uploaded, JsonBound(click, backup_tables), fails))
    /\ UNCHANGED pc

-----------------------------------------------------------------------------
(* DatabaseManager.get_business_metrics: five aggregate queries over the   *)
(* business tables, in this order, inside one try block.                   *)

NoBiz == <<>>
NoMetrics == [returned |-> FALSE]

MetricKeys == {"active_customers", "total_revenue", "low_stock_items",
               "total_employees", "active_projects"}
(* The kinds of row each business table holds in the model, by the columns *)
(* the queries read.  Inventory: the items CHR-002 and LAP-001 of the      *)
(* sample data and one item at its reorder point.                          *)
CustomerKinds == <<[status |-> "Active"], [status |-> "Inactive"]>>
InvoiceKinds == <<[amount |-> 100, status |-> "Paid"], [amount |-> 100, status |-> "Pending"]>>
InventoryKinds == <<[sku |-> "CHR-002", current_stock |-> 8, reorder_point |-> 15],
                    [sku |-> "AT-POINT", current_stock |-> 15, reorder_point |-> 15],
                    [sku |-> "LAP-001", current_stock |-> 25, reorder_point |-> 10]>>
EmployeeKinds == <<[status |-> "Active"], [status |-> "Inactive"]>>
ProjectKinds == <<[status |-> "Planning"], [status |-> "In Progress"],
                  [status |-> "Completed"]>>

(* The tables of at most n rows of the given kinds, one per multiset of    *)
(* rows (the aggregates do not depend on the order of the rows).           *)
TablesOf(kinds, n) ==
    UNION { { [i \in 1..k |-> kinds[f[i]]] :
                f \in { g \in [1..k -> 1..Len(kinds)] :
                          \A i, j \in 1..k : i < j => g[i] <= g[j] } } : k \in 0..n }

(* SELECT COUNT of the rows that are among matching. *)
Count(rows, matching) == Cardinality({ i \in 1..Len(rows) : rows[i] \in matching })

(* SELECT SUM(amount) of the rows among matching: NULL when there is none. *)
RECURSIVE SumAmount(_, _)
SumAmount(rows, matching) ==
    IF rows = <<>> THEN 0
    ELSE (IF Head(rows) \in matching THEN Head(rows).amount ELSE 0)
         + SumAmount(Tail(rows), matching)
Sum(rows, matching) ==
    IF Count(rows, matching) = 0 THEN Null ELSE DecV(SumAmount(rows, matching))

(* The WHERE clauses of the five queries. *)
Active(rows) == { r \in Range(rows) : r.status = "Active" }
Paid(rows) == { r \in Range(rows) : r.status = "Paid" }
LowStockStrict(rows) == { r \in Range(rows) : r.current_stock < r.reorder_point }
LowStock(rows) == { r \in Range(rows) : r.current_stock <= r.reorder_point }
ActiveProjects(rows) == { r \in Range(rows) : r.status \in {"Planning", "In Progress"} }

(* result.scalar() of each query on the tables b. *)
Scalar(b, key) ==
    CASE key = "active_customers" -> IntV(Count(b.customers, Active(b.customers)))
      [] key = "total_revenue" -> Sum(b.invoices, Paid(b.invoices))
      [] key = "low_stock_items" -> IntV(Count(b.inventory, LowStock(b.inventory)))
      [] key = "total_employees" -> IntV(Count(b.employees, Active(b.employees)))
      [] OTHER -> IntV(Count(b.projects, ActiveProjects(b.projects)))

(* "result.scalar() or 0", and float() of it for total_revenue. *)
OrZero(v) == IF v = Null \/ v.v = 0 THEN IntV(0) ELSE v
MetricValue(b, key) ==
    IF key = "total_revenue" THEN FloatV(OrZero(Scalar(b, key)).v)
    ELSE OrZero(Scalar(b, key))

(* The dictionary of the metrics of the given keys. *)
MetricsOf(b, keys) == [k \in keys |-> MetricValue(b, k)]

(* The whole call.  failing: the first query on which the database raises, *)
(* or "none".  The except clause of the one try block shows the error and  *)
(* returns the empty dictionary, whichever query raised.                   *)
PartialKeys(failing) ==
    CASE failing = "active_customers" -> {}
      [] failing = "total_revenue" -> {"active_customers"}
      [] failing = "low_stock_items" -> {"active_customers", "total_revenue"}
      [] failing = "total_employees" -> {"active_customers", "total_revenue", "low_stock_items"}
      [] OTHER -> MetricKeys \ {"active_projects"}
get_business_metrics_partial(b, failing) ==
    [returned |-> TRUE, raised |-> FALSE,
     value |-> MetricsOf(b, IF failing = "none" THEN MetricKeys ELSE PartialKeys(failing)),
     shown |-> IF failing = "none" THEN {}
               ELSE {Msg("Error getting business metrics", "", "database error")}]
get_business_metrics(b, failing) ==
    IF failing = "none"
    THEN [returned |-> TRUE, raised |-> FALSE, value |-> MetricsOf(b, MetricKeys),
          shown |-> {}]
    ELSE [returned |-> TRUE, raised |-> FALSE, value |-> MetricsOf(b, {}),
          shown |-> {Msg("Error getting business metrics", "", "database error")}]

(* metrics.get(key, 0), str(...) and f"${...:,.2f}" *)
Get(value, key) == IF key \in DOMAIN value THEN value[key] ELSE IntV(0)
Str(v) == [t |-> "str", v |-> v.v]
Money(v) == [t |-> "money", v |-> v.v]
(* The four cards of the Dashboard. *)
Cards(value) ==
    [col1 |-> [label |-> "Active Projects", value |-> Str(Get(value, "active_projects"))],
     col2 |-> [label |-> "Total Revenue", value |-> Money(Get(value, "total_revenue"))],
     col3 |-> [label |-> "Active Employees", value |-> Str(Get(value, "total_employees"))],
     col4 |-> IF Get(value, "low_stock_items").v > 0
              THEN [label |-> "Low Stock Items",
                    value |-> Str(Get(value, "low_stock_items"))]
              ELSE [label |-> "Inventory Status", value |-> "Good"]]

(* The Dashboard page: the metrics are computed afresh in every run. *)
Dashboard(failing) ==
    LET m == get_business_metrics(biz, failing)
    IN /\ metrics' = [returned |-> m.returned, raised |-> m.raised, value |-> m.value,
                      cards |-> Cards(m.value)]
       /\ ui' = m.shown
       /\ run' = [handler |-> "dashboard", failing |-> failing]
       /\ UNCHANGED <<tables, backup_json, uploaded_backup, restored_tables, view,
                      prev_view, result_df, biz, data, kpi, sessions, pc, app, session_state>>

-----------------------------------------------------------------------------
(* get_kpi_metrics.  Numbers are exact: [k |-> "fin", n, d] is n/d in      *)
(* lowest terms with d > 0; a division by zero gives what the dataframe    *)
(* library's floats give, an infinity or not-a-number.                     *)

NoData == <<>>
NoKpi == [returned |-> FALSE]

Abs(x) == IF x < 0 THEN -x ELSE x
RECURSIVE GCD(_, _)
GCD(a, b) == IF b = 0 THEN a ELSE GCD(b, a % b)

Ratio(n, d) ==
    LET g == GCD(Abs(n), Abs(d))
        s == IF d < 0 THEN -1 ELSE 1
    IN [k |-> "fin", n |-> (s * n) \div g, d |-> (s * d) \div g]
Num(n) == Ratio(n, 1)
PosInf == [k |-> "inf", n |-> 1, d |-> 0]
NegInf == [k |-> "inf", n |-> -1, d |-> 0]
NotANumber == [k |-> "nan", n |-> 0, d |-> 0]
IsFinite(a) == a.k = "fin"

(* a - b, a / b of finite a and b; a * 100; a > 0 *)
Sub(a, b) == Ratio(a.n * b.d - b.n * a.d, a.d * b.d)
Div(a, b) ==
    IF b.n = 0
    THEN (IF a.n = 0 THEN NotANumber ELSE IF a.n > 0 THEN PosInf ELSE NegInf)
    ELSE Ratio(a.n * b.d, a.d * b.n)
Times100(a) == IF IsFinite(a) THEN Ratio(a.n * 100, a.d) ELSE a
Gt0(a) == IsFinite(a) /\ a.n > 0

(* timedelta(days=30) *)
WindowDays == 30

(* The dataframe: the set of its columns and its rows; a row's field of a  *)
(* column the dataframe lacks is not read.  Dates are day numbers, a       *)
(* customer is a name or missing.                                          *)
DataDates == {0, 10, 40, 70}
DataRevenues == {-3, 0, 2}
DataCustomers == {"a", "b", "null"}
DataColumnSets == { {"date", "revenue", "customer"}, {"date", "revenue"},
                    {"date", "customer"}, {"revenue", "customer"} }
DataRowsOf == [date : DataDates, revenue : DataRevenues, customer : DataCustomers]

RECURSIVE Keep(_, _)
Keep(rows, S) ==
    IF rows = <<>> THEN <<>>
    ELSE (IF Head(rows) \in S THEN <<Head(rows)>> ELSE <<>>) \o Keep(Tail(rows), S)

(* df['revenue'].sum(), df['customer'].nunique(), df['date'].max() *)
RECURSIVE SumRevenue(_)
SumRevenue(rows) == IF rows = <<>> THEN 0 ELSE Head(rows).revenue + SumRevenue(Tail(rows))
NUnique(rows) == Cardinality({ r.customer : r \in Range(rows) } \ {"null"})
MaxDate(rows) == CHOOSE m \in { r.date : r \in Range(rows) } : \A r \in Range(rows) : r.date <= m

(* The two windows: the last 30 days up to the latest date, and the 30     *)
(* days before them.                                                       *)
CurrentStart(rows) == MaxDate(rows) - WindowDays
PreviousStart(rows) == CurrentStart(rows) - WindowDays
(* data['date'] >= current_start *)
InCurrent(rows, date) == date >= CurrentStart(rows)
(* (data['date'] >= previous_start) & (data['date'] < current_start) *)
InPrevious(rows, date) == date >= PreviousStart(rows) /\ date < CurrentStart(rows)
CurrentData(rows) == Keep(rows, { r \in Range(rows) : InCurrent(rows, r.date) })
PreviousData(rows) == Keep(rows, { r \in Range(rows) : InPrevious(rows, r.date) })

(* Revenue, orders, customers and average order value of a window. *)
RevenueOf(d, rows) == IF "revenue" \in d.columns THEN Num(SumRevenue(rows)) ELSE Num(0)
OrdersOf(rows) == Num(Len(rows))
CustomersOf(rows) == Num(NUnique(rows))
AovOf(d, rows) == IF Len(rows) > 0 THEN Div(RevenueOf(d, rows), OrdersOf(rows)) ELSE Num(0)

(* ((current - previous) / previous * 100) if previous > 0 else 0 *)
GrowthUnguarded(current, previous) == Times100(Div(Sub(current, previous), previous))
Growth(current, previous) ==
    IF Gt0(previous) THEN Times100(Div(Sub(current, previous), previous)) ELSE Num(0)

get_kpi_metrics(d) ==
    LET zero == Num(0)
        totals == [total_revenue |-> RevenueOf(d, d.rows),
                   total_orders |-> OrdersOf(d.rows),
                   active_customers |-> IF "customer" \in d.columns THEN CustomersOf(d.rows)
                                        ELSE zero,
                   avg_order_value |-> AovOf(d, d.rows)]
        no_growth == [revenue_growth |-> zero, order_growth |-> zero,
                      customer_growth |-> zero, aov_growth |-> zero]
        cur == CurrentData(d.rows)
        prev == PreviousData(d.rows)
        growth == [revenue_growth |-> Growth(RevenueOf(d, cur), RevenueOf(d, prev)),
                   order_growth |-> Growth(OrdersOf(cur), OrdersOf(prev)),
                   customer_growth |-> IF "customer" \in d.columns
                                       THEN Growth(CustomersOf(cur), CustomersOf(prev))
                                       ELSE zero,
                   aov_growth |-> Growth(AovOf(d, cur), AovOf(d, prev))]
    IN IF d.rows = <<>>
       THEN [total_revenue |-> zero, total_orders |-> zero, active_customers |-> zero,
             avg_order_value |-> zero] @@ no_growth
       ELSE IF "date" \in d.columns /\ prev # <<>> /\ cur # <<>>
       THEN totals @@ growth
       ELSE totals @@ no_growth

(* One call of get_kpi_metrics on the dataframe. *)
KpiRun ==
    /\ run = NoRun
    /\ kpi' = [returned |-> TRUE, value |-> get_kpi_metrics(data)]
    /\ run' = [handler |-> "kpi"]
    /\ UNCHANGED <<tables, ui, backup_json, uploaded_backup, restored_tables, view,
                   prev_view, result_df, biz, metrics, data, sessions, pc, app, session_state>>

-----------------------------------------------------------------------------
(* DatabaseManager as a context manager.  Each with-block of the           *)
(* repository: DatabaseManager() opens a session, the body runs, and       *)
(* __exit__ closes the session however the body ended.  The blocks are     *)
(* never nested; the runs of different users interleave.                   *)

Users == {"u1", "u2"}
WithBlocks == {"initialize_database", "dashboard", "show_database_admin", "backup",
               "restore", "accounts", "add_account", "account_summary"}
(* How a body ends: it returns, or an exception leaves it (st.rerun and    *)
(* st.stop leave it by an exception too).                                  *)
Exits == {"return", "exception"}
Idle == "idle"
NoPc == [u \in Users |-> [at |-> Idle, last_exit |-> "none"]]

(* __init__: self.session = SessionLocal() *)
DatabaseManager_init(open, s) == open \cup {s}
(* __exit__(exc_type, exc_val, exc_tb): self.session.close() *)
DatabaseManager_exit_leaks(open, s, how) == IF how = "exception" THEN open ELSE open \ {s}
DatabaseManager_exit(open, s, how) == open \ {s}

(* with get_database_connection() as db: / with DatabaseManager() as db: *)
EnterWith(u, op) ==
    /\ pc[u].at = Idle
    /\ sessions' = DatabaseManager_init(sessions, [user |-> u, op |-> op])
    /\ pc' = [pc EXCEPT ![u].at = op]
    /\ UNCHANGED <<tables, ui, backup_json, uploaded_backup, restored_tables, run, view,
                   prev_view, result_df, biz, metrics, data, kpi, app, session_state>>

(* The body ends and the with statement calls __exit__. *)
LeaveWith(u, how) ==
    /\ pc[u].at # Idle
    /\ sessions' = DatabaseManager_exit(sessions, [user |-> u, op |-> pc[u].at], how)
    /\ pc' = [pc EXCEPT ![u] = [at |-> Idle, last_exit |-> how]]
    /\ UNCHANGED <<tables, ui, backup_json, uploaded_backup, restored_tables, run, view,
                   prev_view, result_df, biz, metrics, data, kpi, app, session_state>>

-----------------------------------------------------------------------------
(* app.py, one browser session.  Streamlit runs the script from the top at *)
(* every interaction; st.session_state survives from run to run, what the  *)
(* run shows does not.  st.stop() ends the run.  An import of              *)
(* utils.database that ends in st.stop() leaves no module behind, so the   *)
(* next run imports it again.                                              *)

MaxRuns == 4
(* The process environment: DATABASE_URL is missing, is one create_engine  *)
(* rejects, or is usable.                                                  *)
Envs == {"no_url", "bad_url", "ok"}
Logins == {"none", "bad", "admin", "demo"}
(* config['credentials']['usernames'][username]['role'] *)
RoleOf(username) == IF username = "admin" THEN "Admin" ELSE "User"
Categories == {"Dashboard", "Finance", "Database Admin"}
InitErrors == {"Database URL not found", "Failed to connect to database",
               "Database initialization failed", "Failed to initialize database"}
AfterInit == {"login form", "business metrics query", "module content"}

NoCategory == "None"
NoApp == [env |-> "ok", database_initialized |-> FALSE, authenticated |-> FALSE,
          username |-> "None", user_role |-> "None",
          selected_category |-> NoCategory, shown |-> <<>>, stopped |-> FALSE,
          reports |-> 0, runs |-> 0]

Show(a, what) == [a EXCEPT !.shown = Append(@, what)]
StopContinues(a) == a
Stop(a) == [a EXCEPT !.stopped = TRUE]

(* utils/database.py, module level: DATABASE_URL and create_engine *)
EngineSetup(a) ==
    CASE a.env = "no_url"  -> Stop(Show(a, "Database URL not found"))
      [] a.env = "bad_url" -> Stop(Show(a, "Failed to connect to database"))
      [] OTHER             -> a

(* DatabaseManager.initialize_database, with its own st.error *)
initialize_database(a, init_ok) ==
    IF init_ok THEN a ELSE Show(a, "Database initialization failed")

(* app.py: "Initialize database on first run" *)
InitializeOnFirstRun(a, init_ok) ==
    IF a.stopped \/ a.database_initialized THEN a
    ELSE IF init_ok
         THEN Show([initialize_database(a, init_ok) EXCEPT !.database_initialized = TRUE],
                   "Database initialized successfully!")
         ELSE Show(initialize_database(a, init_ok), "Failed to initialize database")

(* utils/auth.py check_authentication, and app.py: if not ...: st.stop() *)
check_authentication(a, login) ==
    IF a.stopped \/ a.authenticated THEN a
    ELSE CASE login = "none" -> Stop(Show(a, "login form"))
           [] login = "bad"  -> Stop(Show(Show(a, "login form"), "Username/password is incorrect"))
           [] OTHER          -> [Show(a, "login form") EXCEPT !.authenticated = TRUE,
                                                              !.username = login,
                                                              !.user_role = RoleOf(login)]

(* app.py: the sidebar and the selected category's content *)
MainInterface(a, category, logout) ==
    IF a.stopped THEN a
    ELSE IF logout
         THEN Stop([a EXCEPT !.authenticated = FALSE, !.user_role = "None",
                             !.username = "None", !.selected_category = NoCategory])
         ELSE Show([a EXCEPT !.selected_category = category],
                   IF category = "Dashboard" THEN "business metrics query"
                                             ELSE "module content")

ReportsInitError(a) == \E i \in 1..Len(a.shown) : a.shown[i] \in InitErrors

Counted(a) ==
    [a EXCEPT !.reports = IF ReportsInitError(a) THEN @ + 1 ELSE @, !.runs = @ + 1]

(* One run of the script. *)
AppRun(login, category, init_ok, logout) ==
    /\ app.runs < MaxRuns
    /\ app' = Counted(MainInterface(
                 check_authentication(
                   InitializeOnFirstRun(
                     EngineSetup([app EXCEPT !.shown = <<>>, !.stopped = FALSE]),
                     init_ok),
                   login),
                 category, logout))
    /\ UNCHANGED <<tables, ui, backup_json, uploaded_backup, restored_tables, run, view,
                   prev_view, result_df, biz, metrics, data, kpi, sessions, pc,
                   session_state>>

-----------------------------------------------------------------------------
(* The statements each database operation hands to session.execute, in     *)
(* order, with whether the database accepted each: no except clause of the *)
(* repository calls session.execute again.                                 *)

(* self.session.execute(text(query)) *)
IssueRetrying(stmt, ok) ==
    IF ok THEN <<[stmt |-> stmt, ok |-> TRUE]>>
    ELSE <<[stmt |-> stmt, ok |-> FALSE], [stmt |-> stmt, ok |-> FALSE]>>
Issue(stmt, ok) == <<[stmt |-> stmt, ok |-> ok]>>

(* get_table_data: its one SELECT. *)
IssuedByTableData(table_name, db_ok) == Issue(<<"select", table_name>>, db_ok)
(* execute_query: the one text it is given. *)
IssuedByExecuteQuery(stmts, ok) == Issue(<<"text", stmts>>, ok)
(* get_business_metrics: the five queries in the order of the code, up to  *)
(* the first that raises.                                                  *)
MetricOrder == <<"active_customers", "total_revenue", "low_stock_items",
                 "total_employees", "active_projects">>
RECURSIVE IssuedByMetrics(_, _)
IssuedByMetrics(keys, failing) ==
    IF keys = <<>> THEN <<>>
    ELSE IF Head(keys) = failing THEN Issue(<<"metric", Head(keys)>>, FALSE)
    ELSE Issue(<<"metric", Head(keys)>>, TRUE) \o IssuedByMetrics(Tail(keys), failing)
(* The restore branch: per table its DELETE, then an INSERT per record,    *)
(* each through execute_query, which returns None for a statement that     *)
(* raised, so that the loops go on.                                        *)
RECURSIVE IssuedByRestore(_, _, _)
IssuedByEntry(entry, fails) ==
    Issue(<<"delete", entry.table>>, <<"delete", entry.table>> \notin fails)
    \o [j \in 1..Len(entry.records) |->
          [stmt |-> <<"insert", entry.table, j>>,
           ok |-> Issue(<<"insert", entry.table, j>>,
                        <<"insert", entry.table>> \notin fails)[1].ok]]
IssuedByRestore(entries, json_bound, fails) ==
    IF ~json_bound \/ entries = <<>> THEN <<>>
    ELSE IssuedByEntry(Head(entries), fails)
         \o IssuedByRestore(Tail(entries), json_bound, fails)

(* One database operation: its effect, what it shows, what it issued. *)
Operation(op, tbls, shown, issued) ==
    /\ tables' = tbls
    /\ ui' = shown
    /\ run' = [handler |-> "operation", op |-> op, issued |-> issued]
    /\ UNCHANGED <<backup_json, uploaded_backup, restored_tables, view, prev_view,
                   result_df, biz, metrics, data, kpi, sessions, pc, app, session_state>>

-----------------------------------------------------------------------------
(* modules/sales.py: the Sales category keeps its data in                  *)
(* st.session_state.sales_data.  A customer or lead is modelled by its id  *)
(* [prefix, n] (the text is prefix-n with n padded to four digits), a deal *)
(* by its name and stage; activities by their number.                      *)

MaxAdded == 1
MaxUpdates == 2

Stages == {"Lead", "Qualified", "Proposal", "Negotiation", "Closed Won", "Closed Lost"}
SalesClicks == {"none", "Add Customer", "Add Lead", "Update Deal"}

Id(prefix, n) == [prefix |-> prefix, n |-> n]
generate_sample_customers == [i \in 1..4 |-> Id("CUST", i)]
generate_sample_leads == [i \in 1..3 |-> Id("LEAD", i)]
generate_sample_deals ==
    <<[name |-> "TechCorp Implementation", stage |-> "Proposal"],
      [name |-> "FinancePlus Integration", stage |-> "Negotiation"],
      [name |-> "Health Solutions Platform", stage |-> "Qualified"],
      [name |-> "EduTech Training Module", stage |-> "Closed Won"]>>
generate_sample_activities == 5

(* if 'sales_data' not in st.session_state: ... *)
show_sales_modules(ss) ==
    IF ss.sales_data.set THEN ss
    ELSE [ss EXCEPT !.sales_data = [set |-> TRUE,
                                    customers |-> generate_sample_customers,
                                    leads |-> generate_sample_leads,
                                    deals |-> generate_sample_deals,
                                    sales_activities |-> generate_sample_activities]]

(* f"CUST-{len(...) + 1:04d}" *)
NextIdOfLast(prefix, list) == Id(prefix, Len(list))
NextId(prefix, list) == Id(prefix, Len(list) + 1)

(* Add Customer / Add Lead: the new entry is appended. *)
AddCustomer(sd) == [sd EXCEPT !.customers = Append(@, NextId("CUST", @))]
AddLead(sd) == [sd EXCEPT !.leads = Append(@, NextId("LEAD", @))]

(* Update Deal: the first deal of that name gets the new stage; an         *)
(* activity is recorded.                                                   *)
FirstNamed(deals, name) ==
    CHOOSE i \in 1..Len(deals) :
        deals[i].name = name /\ \A j \in 1..(i - 1) : deals[j].name # name
NewStageUnlessClosed(stage, new_stage) ==
    IF stage \in {"Closed Won", "Closed Lost"} THEN stage ELSE new_stage
NewStage(stage, new_stage) == new_stage
UpdateDeal(sd, deal_to_update, new_stage) ==
    [sd EXCEPT !.deals[FirstNamed(sd.deals, deal_to_update)].stage = NewStage(@, new_stage),
               !.sales_activities = @ + 1]

(* One run of the Sales category with at most one button pressed; a button *)
(* can be pressed only once a run has shown it.                            *)
SalesRun(click, deal_to_update, new_stage) ==
    /\ click # "none" => session_state.sales_data.set
    /\ click = "Add Customer"
          => Len(session_state.sales_data.customers) < 4 + MaxAdded
    /\ click = "Add Lead" => Len(session_state.sales_data.leads) < 3 + MaxAdded
    /\ click = "Update Deal" => session_state.sales_data.sales_activities < 5 + MaxUpdates
    /\ session_state' =
          [show_sales_modules(session_state) EXCEPT !.sales_data =
              CASE click = "Add Customer" -> AddCustomer(@)
                [] click = "Add Lead" -> AddLead(@)
                [] click = "Update Deal" -> UpdateDeal(@, deal_to_update, new_stage)
                [] OTHER -> @]
    /\ run' = [handler |-> "sales", click |-> click, deal_to_update |-> deal_to_update,
               new_stage |-> new_stage]
    /\ UNCHANGED <<tables, ui, backup_json, uploaded_backup, restored_tables, view,
                   prev_view, result_df, biz, metrics, data, kpi, sessions, pc, app>>

-----------------------------------------------------------------------------
(* modules/finance.py: show_finance_modules runs its five tabs in order    *)
(* and sets nothing in st.session_state; Invoicing, Expenses Tracking and  *)
(* Spreadsheets read st.session_state.finance_data, and reading an entry   *)
(* that is not set raises, which ends the run.                             *)

FinanceTabs == <<"Accounting", "Invoicing", "Expenses Tracking", "Spreadsheets (BI)",
                 "Documents Management">>
ReadsFinanceData == {"Invoicing", "Expenses Tracking", "Spreadsheets (BI)"}

RECURSIVE ShowTabs(_, _)
ShowTabs(ss, tabs) ==
    IF tabs = <<>> THEN [raised |-> FALSE, shown |-> <<>>, read |-> FALSE]
    ELSE IF Head(tabs) \in ReadsFinanceData /\ ~ss.finance_data.set
    THEN [raised |-> TRUE, shown |-> <<>>, read |-> TRUE]
    ELSE [ShowTabs(ss, Tail(tabs)) EXCEPT
             !.shown = <<Head(tabs)>> \o @,
             !.read = @ \/ Head(tabs) \in ReadsFinanceData]
show_finance_modules(ss) == ShowTabs(ss, FinanceTabs)

(* One run of the Finance category, no button pressed. *)
FinanceRun ==
    /\ run' = [handler |-> "finance", raised |-> show_finance_modules(session_state).raised,
               shown |-> show_finance_modules(session_state).shown,
               read |-> show_finance_modules(session_state).read]
    /\ UNCHANGED <<tables, ui, backup_json, uploaded_backup, restored_tables, view,
                   prev_view, result_df, biz, metrics, data, kpi, sessions, pc, app,
                   session_state>>

-----------------------------------------------------------------------------
(* The database after create_all: the five tables that get sample data and *)
(* audit_log.  A row is known by its unique business column (customer_id,  *)
(* account_code, sku, employee_id), the id of the model; projects has only *)
(* its SERIAL id, which the database assigns.                              *)

SampleTables == <<"customers", "chart_of_accounts", "inventory", "employees", "projects">>
DbTables == Range(SampleTables) \cup {"audit_log"}
SampleSize(t) == IF t = "chart_of_accounts" THEN 8 ELSE 3
DbRow(k) == [id |-> IntV(k), manager_id |-> Null, hire_date |-> Null, salary |-> DecV(1)]

(* customers_data ... projects_data: the rows the loops insert into t, and *)
(* the transaction after all the loops; an INSERT of a key the table       *)
(* already holds raises.                                                   *)
SampleRows(tbls, t) ==
    [k \in 1..SampleSize(t) |-> DbRow(IF t = "projects" THEN Len(tbls[t]) + k ELSE k)]
SampleRaises(tbls) ==
    \E n \in 1..Len(SampleTables) :
       \E i \in 1..Len(tbls[SampleTables[n]]) :
          \E k \in 1..SampleSize(SampleTables[n]) :
             tbls[SampleTables[n]][i].id = SampleRows(tbls, SampleTables[n])[k].id
SampleInserted(tbls) ==
    [t \in DOMAIN tbls |->
        IF t \in Range(SampleTables) THEN tbls[t] \o SampleRows(tbls, t) ELSE tbls[t]]

(* SELECT COUNT FROM customers; if result.scalar() > 0: return *)
DataAlreadyExistsInProjects(tbls) == Len(tbls["projects"]) > 0
DataAlreadyExists(tbls) == Len(tbls["customers"]) > 0

(* DatabaseManager.insert_sample_data: one try block, one commit at its    *)
(* end, rollback in its except.  fail: where the database raises for a     *)
(* reason of its own ("count": the COUNT query, "insert": one of the       *)
(* INSERTs, "commit": the commit), or "none".                              *)
SampleFails == {"none", "create", "count", "insert", "commit"}
insert_sample_data(tbls, fail) ==
    IF fail = "count" THEN [tables |-> Rollback(tbls, tbls), outcome |-> "rolled back"]
    ELSE IF DataAlreadyExists(tbls) THEN [tables |-> tbls, outcome |-> "data already exists"]
    ELSE IF ~SampleRaises(tbls) /\ fail = "none"
    THEN [tables |-> Commit(tbls, SampleInserted(tbls)), outcome |-> "committed"]
    ELSE [tables |-> Rollback(tbls, tbls), outcome |-> "rolled back"]

(* DatabaseManager.initialize_database: the CREATE TABLE IF NOT EXISTS     *)
(* statements, which add no row and whose failure ends the call, then      *)
(* insert_sample_data, whose failure it does not see.                      *)
InitializeDatabaseRun(fail) ==
    LET r == IF fail = "create" THEN [tables |-> tables, outcome |-> "failed"]
             ELSE insert_sample_data(tables, fail)
    IN /\ tables' = r.tables
       /\ ui' = IF fail = "create"
                THEN {Msg("Database initialization failed", "", "database error")} ELSE {}
       /\ run' = [handler |-> "initialize", fail |-> fail, outcome |-> r.outcome,
                  returned |-> fail # "create"]
       /\ IF r.tables # tables THEN view' = NoView /\ prev_view' = NoView
          ELSE UNCHANGED <<view, prev_view>>
       /\ UNCHANGED <<backup_json, uploaded_backup, restored_tables, result_df, biz, metrics,
                      data, kpi, sessions, pc, app, session_state>>

(* finance.py, Add Account: the INSERT into chart_of_accounts through      *)
(* execute_query, then st.success whatever execute_query did.              *)
AddAccount(account_code, db_ok) ==
    LET exec == execute_query(tables, <<Insert("chart_of_accounts", DbRow(account_code))>>,
                              db_ok)
    IN /\ tables' = exec.tables
       /\ ui' = exec.shown \cup {Msg("added successfully!", "chart_of_accounts", "")}
       /\ run' = [handler |-> "finance", click |-> "Add Account", error |-> exec.error]
       /\ IF exec.tables # tables THEN view' = NoView /\ prev_view' = NoView
          ELSE UNCHANGED <<view, prev_view>>
       /\ UNCHANGED <<backup_json, uploaded_backup, restored_tables, result_df, biz, metrics,
                      data, kpi, sessions, pc, app, session_state>>

-----------------------------------------------------------------------------
(* Specifications.  Each one starts the part of the state its handlers use *)
(* from a bounded set of states the program can be in and leaves the rest  *)
(* idle.                                                                   *)

IdleAdmin ==
    /\ ui = {}
    /\ backup_json = NoDoc
    /\ uploaded_backup = NoDoc
    /\ restored_tables = <<>>
    /\ run = NoRun
    /\ view = NoView
    /\ prev_view = NoView
    /\ result_df = NoDf
    /\ sessions = {}
    /\ pc = NoPc
    /\ app = NoApp
    /\ session_state = NoSessionState

(* View Data: a table of up to MaxBrowseRows rows, browsed page by page    *)
(* while another session's committed writes may change it.                 *)
BrowseRow(i) == [id |-> IntV(i), manager_id |-> Null, hire_date |-> Null, salary |-> DecV(1)]

InitBrowse ==
    /\ \E n \in 0..MaxBrowseRows :
          tables = [t \in TableNames |->
                      IF t = "employees" THEN [i \in 1..n |-> BrowseRow(i)] ELSE <<>>]
    /\ IdleAdmin
    /\ biz = NoBiz /\ metrics = NoMetrics /\ data = NoData /\ kpi = NoKpi

BrowseRun ==
    \E t \in TableNames, page_size \in PageSizes,
       fails \in { F \in FailSets : "execute" \notin F } :
      \E page_num \in 1..Max(1, TotalPages(Len(tables[t]), page_size)) :
        show_database_admin(t, page_size, page_num, "none", "SELECT (Read)",
                            [blank |-> TRUE, stmts |-> <<>>], NoRow, fails)

(* A write another session commits: the last row deleted, or a row with    *)
(* the next key appended.                                                  *)
ConcurrentWrite ==
    /\ \E t \in {"employees"} :
          \/ /\ tables[t] # <<>>
             /\ tables' = [tables EXCEPT ![t] = SubSeq(@, 1, Len(@) - 1)]
          \/ /\ Len(tables[t]) < MaxBrowseRows
             /\ tables' = [tables EXCEPT ![t] = Append(@, BrowseRow(Len(@) + 1))]
    /\ view' = NoView
    /\ prev_view' = NoView
    /\ UNCHANGED <<ui, backup_json, uploaded_backup, restored_tables, run,
                   result_df, biz, metrics, data, kpi, sessions, pc, app, session_state>>

NextBrowse == BrowseRun \/ ConcurrentWrite
SpecBrowse == InitBrowse /\ [][NextBrowse]_vars

(* View Data statement by statement: the COUNT query, then the page        *)
(* query, each reading what is committed when it runs; another session's   *)
(* write may commit between the two.                                       *)
PageView(tbls, total_count, selected_table, page_size, page_num, db_ok) ==
    [ViewData(tbls, selected_table, page_size, page_num, db_ok).view
        EXCEPT !.total_count = total_count,
               !.total_pages = TotalPages(total_count, page_size)]

(* count_result = db.session.execute(... SELECT COUNT ...) *)
PageCount(u, selected_table, page_size) ==
    /\ pc[u].at = Idle
    /\ pc' = [pc EXCEPT ![u] = [at |-> "counted", last_exit |-> "none",
                                table |-> selected_table, page_size |-> page_size,
                                total_count |-> Len(tables[selected_table])]]
    /\ UNCHANGED <<tables, ui, backup_json, uploaded_backup, restored_tables, run, view,
                   prev_view, result_df, biz, metrics, data, kpi, sessions, app, session_state>>

(* page_num = st.number_input(...); data_df = db.get_table_data(...) *)
PageFetch(u, page_num, db_ok) ==
    /\ pc[u].at = "counted"
    /\ page_num \in 1..Max(1, TotalPages(pc[u].total_count, pc[u].page_size))
    /\ view' = PageView(tables, pc[u].total_count, pc[u].table, pc[u].page_size,
                        page_num, db_ok)
    /\ ui' = ViewData(tables, pc[u].table, pc[u].page_size, page_num, db_ok).shown
    /\ pc' = [pc EXCEPT ![u] = [at |-> Idle, last_exit |-> "return"]]
    /\ UNCHANGED <<tables, backup_json, uploaded_backup, restored_tables, run,
                   prev_view, result_df, biz, metrics, data, kpi, sessions, app, session_state>>

CountRun == \E t \in TableNames, page_size \in PageSizes : PageCount("u1", t, page_size)
FetchRun == \E page_num \in 1..MaxBrowseRows, db_ok \in BOOLEAN : PageFetch("u1", page_num, db_ok)
NextPaging == CountRun \/ FetchRun \/ ConcurrentWrite
SpecPaging == InitBrowse /\ [][NextPaging]_vars

(* Add Record and Custom Query: one run of the page on each content the    *)
(* two tables can have, rows in key order (a second run starts from a      *)
(* state that is, up to the order of the rows, initial too).               *)
InitConsole ==
    /\ tables \in [TableNames -> { s \in KeyedSeqs(ConsoleRows, MaxId) :
                                    \A i, j \in 1..Len(s) : i < j => s[i].id.v < s[j].id.v }]
    /\ IdleAdmin
    /\ biz = NoBiz /\ metrics = NoMetrics /\ data = NoData /\ kpi = NoKpi

(* For the console only where a run ends matters: before execute_query or *)
(* in it.                                                                  *)
ConsoleFailSets == { F \in FailSets : "count" \notin F /\ "columns" \notin F }

AddRecordRun ==
    /\ run = NoRun
    /\ \E t \in TableNames, row \in InsertRows, fails \in ConsoleFailSets :
          show_database_admin(t, 25, 1, "add", "SELECT (Read)",
                              [blank |-> TRUE, stmts |-> <<>>], row, fails)

CustomQueryRun ==
    /\ run = NoRun
    /\ \E t \in TableNames, query_type \in QueryTypes, custom_query \in ConsoleTexts,
          fails \in ConsoleFailSets :
          show_database_admin(t, 25, 1, "execute", query_type, custom_query, NoRow, fails)

NextConsole == AddRecordRun \/ CustomQueryRun
SpecConsole == InitConsole /\ [][NextConsole]_vars

(* The Dashboard on every content of the business tables of at most        *)
(* MaxBizRows rows each.                                                   *)
InitMetrics ==
    /\ biz \in [customers : TablesOf(CustomerKinds, MaxBizRows),
                 invoices : TablesOf(InvoiceKinds, MaxBizRows),
                 inventory : TablesOf(InventoryKinds, MaxBizRows),
                 employees : TablesOf(EmployeeKinds, MaxBizRows),
                 projects : TablesOf(ProjectKinds, MaxBizRows)]
    /\ tables = [t \in TableNames |-> <<>>]
    /\ IdleAdmin
    /\ metrics = NoMetrics /\ data = NoData /\ kpi = NoKpi

DashboardRun ==
    /\ run = NoRun
    /\ \E failing \in {"none"} \cup MetricKeys : Dashboard(failing)

NextMetrics == DashboardRun
SpecMetrics == InitMetrics /\ [][NextMetrics]_vars

(* get_kpi_metrics on every dataframe of at most MaxDataRows rows. *)
InitKpi ==
    /\ \E columns \in DataColumnSets, n \in 0..MaxDataRows :
          \E rows \in [1..n -> DataRowsOf] : data = [columns |-> columns, rows |-> rows]
    /\ tables = [t \in TableNames |-> <<>>]
    /\ IdleAdmin
    /\ biz = NoBiz /\ metrics = NoMetrics /\ kpi = NoKpi

NextKpi == KpiRun
SpecKpi == InitKpi /\ [][NextKpi]_vars

(* Backup and restore: one backup, console DELETEs that empty tables, one  *)
(* restore, on every content of the two tables.  The restore is handed the *)
(* document of the backup or one of the documents written by hand.         *)
BackupRows == { r \in Rows : r.hire_date = Null <=> r.manager_id = Null }
InitBackup ==
    /\ tables \in [TableNames -> { s \in KeyedSeqs(BackupRows, MaxId) :
                                    \A i, j \in 1..Len(s) : i < j => s[i].id.v < s[j].id.v }]
    /\ IdleAdmin
    /\ biz = NoBiz /\ metrics = NoMetrics /\ data = NoData /\ kpi = NoKpi

AnnRecord == [dict |-> TRUE, fields |-> [c \in {"id", "salary"} |-> IntV(1)]]
HandDocs ==
    { [made |-> TRUE, entries |-> <<[table |-> "customers", records |-> <<AnnRecord>>]>>],
      [made |-> TRUE, entries |-> <<[table |-> "customers", records |-> <<AnnRecord>>],
                                    [table |-> "employees", records |-> <<AnnRecord>>]>>],
      [made |-> TRUE, entries |-> <<[table |-> "customers",
                                     records |-> <<[dict |-> FALSE, fields |-> <<>>]>>]>>] }

BackupRun ==
    /\ backup_json = NoDoc /\ uploaded_backup = NoDoc
    /\ \E backup_tables \in {<<>>, <<"customers">>, <<"employees">>,
                              <<"customers", "employees">>} :
          \E fetch_fails \in { F \in SUBSET Range(backup_tables) : Cardinality(F) <= 1 } :
             show_database_backup("backup", backup_tables, fetch_fails, NoDoc, {})

(* DELETE FROM t typed into the Custom Query tab. *)
EmptyRun ==
    /\ backup_json # NoDoc /\ uploaded_backup = NoDoc
    /\ \E t \in TableNames :
          /\ tables[t] # <<>>
          /\ show_database_admin(t, 25, 1, "execute", "DELETE (Remove)",
                                 [blank |-> FALSE, stmts |-> <<Delete(t)>>], NoRow, {})

RestoreRun ==
    /\ uploaded_backup = NoDoc
    /\ \E uploaded \in HandDocs \cup (IF backup_json = NoDoc THEN {}
                                       ELSE {[made |-> TRUE, entries |-> backup_json.entries]}),
          fails \in { F \in SUBSET RestoreStatements : Cardinality(F) <= 1 } :
          show_database_backup("restore", <<>>, {}, uploaded, fails)

NextBackup == BackupRun \/ EmptyRun \/ RestoreRun
SpecBackup == InitBackup /\ [][NextBackup]_vars

(* Two users, each with a document for the customers table uploaded, each  *)
(* pressing Restore once; their runs in either order.                      *)
RestoreRecord(k) == [dict |-> TRUE, fields |-> [c \in {"id", "salary"} |-> IntV(k)]]
RestoreDocs ==
    { [made |-> TRUE, entries |-> <<[table |-> "customers", records |-> recs]>>] :
        recs \in { <<>>, <<RestoreRecord(1)>>, <<RestoreRecord(2)>>,
                   <<RestoreRecord(1), RestoreRecord(2)>> } }
InitRestores ==
    /\ tables \in [TableNames -> { s \in KeyedSeqs(BackupRows, MaxId) :
                                    \A i, j \in 1..Len(s) : i < j => s[i].id.v < s[j].id.v }]
    /\ tables["employees"] = <<>>
    /\ ui = {} /\ backup_json = NoDoc /\ uploaded_backup = NoDoc
    /\ restored_tables = <<>> /\ run = NoRun /\ view = NoView /\ prev_view = NoView
    /\ result_df = NoDf /\ sessions = {} /\ app = NoApp /\ session_state = NoSessionState
    /\ biz = NoBiz /\ metrics = NoMetrics /\ data = NoData /\ kpi = NoKpi
    /\ \E D1 \in RestoreDocs : \E D2 \in RestoreDocs \ {D1} :
          pc = [u \in Users |-> [at |-> "uploaded", last_exit |-> "none",
                                 uploaded |-> IF u = "u1" THEN D1 ELSE D2]]

(* One user's run of the tab with the Restore button pressed. *)
UserRestore(u) ==
    /\ pc[u].at = "uploaded"
    /\ BackupTab("restore", <<>>, {}, pc[u].uploaded, {}, Backup(tables, <<>>, {}),
                 Restore(tables, pc[u].uploaded, JsonBound("restore", <<>>), {}))
    /\ pc' = [pc EXCEPT ![u].at = "done", ![u].last_exit = "return"]

NextRestores == \E u \in Users : UserRestore(u)
SpecRestores == InitRestores /\ [][NextRestores]_vars

(* Each database operation once, on every content of the two tables, with  *)
(* the database raising where it may.                                      *)
InitOperations ==
    /\ tables \in [TableNames -> { s \in KeyedSeqs(ConsoleRows, MaxId) :
                                    \A i, j \in 1..Len(s) : i < j => s[i].id.v < s[j].id.v }]
    /\ IdleAdmin
    /\ biz = [customers |-> <<>>, invoices |-> <<>>, inventory |-> <<>>,
              employees |-> <<>>, projects |-> <<>>]
    /\ metrics = NoMetrics /\ data = NoData /\ kpi = NoKpi

TableDataOp ==
    /\ run = NoRun
    /\ \E t \in TableNames, db_ok \in BOOLEAN :
          Operation("get_table_data", tables, get_table_data(tables, t, NoLimit, db_ok).shown,
                    IssuedByTableData(t, db_ok))
ExecuteQueryOp ==
    /\ run = NoRun
    /\ \E st \in Statements, db_ok \in BOOLEAN :
          Operation("execute_query", execute_query(tables, <<st>>, db_ok).tables,
                    execute_query(tables, <<st>>, db_ok).shown,
                    IssuedByExecuteQuery(<<st>>, ~execute_query(tables, <<st>>, db_ok).error))
MetricsOp ==
    /\ run = NoRun
    /\ \E failing \in {"none"} \cup MetricKeys :
          Operation("get_business_metrics", tables, get_business_metrics(biz, failing).shown,
                    IssuedByMetrics(MetricOrder, failing))
RestoreOp ==
    /\ run = NoRun
    /\ \E uploaded \in HandDocs, fails \in { F \in SUBSET RestoreStatements : Cardinality(F) <= 1 } :
          Operation("restore",
                    Restore(tables, uploaded, JsonBound("restore", <<>>), fails).tables,
                    Restore(tables, uploaded, JsonBound("restore", <<>>), fails).shown,
                    IssuedByRestore(uploaded.entries, JsonBound("restore", <<>>), fails))
NextOperations == TableDataOp \/ ExecuteQueryOp \/ MetricsOp \/ RestoreOp
SpecOperations == InitOperations /\ [][NextOperations]_vars

(* The with-blocks of two users' runs, interleaved. *)
InitSessions ==
    /\ tables = [t \in TableNames |-> <<>>]
    /\ IdleAdmin
    /\ biz = NoBiz /\ metrics = NoMetrics /\ data = NoData /\ kpi = NoKpi

Enter == \E u \in Users, op \in WithBlocks : EnterWith(u, op)
Leave == \E u \in Users, how \in Exits : LeaveWith(u, how)
NextSessions == Enter \/ Leave
SpecSessions == InitSessions /\ [][NextSessions]_vars

(* A browser session of app.py in each environment. *)
InitApp ==
    /\ tables = [t \in TableNames |-> <<>>]
    /\ ui = {} /\ backup_json = NoDoc /\ uploaded_backup = NoDoc
    /\ restored_tables = <<>> /\ run = NoRun /\ view = NoView /\ prev_view = NoView
    /\ result_df = NoDf /\ sessions = {} /\ pc = NoPc
    /\ biz = NoBiz /\ metrics = NoMetrics /\ data = NoData /\ kpi = NoKpi
    /\ session_state = NoSessionState
    /\ \E env \in Envs : app = [NoApp EXCEPT !.env = env]

NextApp ==
    \E login \in Logins, category \in Categories, init_ok \in BOOLEAN, logout \in BOOLEAN :
        AppRun(login, category, init_ok, logout)
SpecApp == InitApp /\ [][NextApp]_vars

(* A browser session before any category has been opened. *)
InitSales ==
    /\ tables = [t \in TableNames |-> <<>>]
    /\ IdleAdmin
    /\ biz = NoBiz /\ metrics = NoMetrics /\ data = NoData /\ kpi = NoKpi

(* The two selectboxes of the Update Deal form count only with its button; *)
(* otherwise they stand at their first options.                            *)
NextSales ==
    \/ \E click \in SalesClicks \ {"Update Deal"} :
          SalesRun(click, generate_sample_deals[1].name, "Lead")
    \/ \E i \in 1..Len(generate_sample_deals), new_stage \in Stages :
          SalesRun("Update Deal", generate_sample_deals[i].name, new_stage)
(* The Finance and Sales categories in one browser session, in any order. *)
NextModules == NextSales \/ FinanceRun
SpecModules == InitSales /\ [][NextModules]_vars

-----------------------------------------------------------------------------
(* Properties *)

IsSelectText(q) == q.stmts # <<>> /\ \A i \in 1..Len(q.stmts) : q.stmts[i].op = "select"
SuccessIndicator == Msg("Query executed successfully!", "", "")

(* C6: a fetched page has at most page_size rows, and two pages k and k+1  *)
(* of the same table at the same page size, fetched with no write between  *)
(* them, have no row in common.                                            *)
C6_PageBounded_Disjoint ==
    /\ view # NoView => Len(view.rows) <= view.page_size
    /\ (/\ view # NoView /\ prev_view # NoView
        /\ (view.page_num = prev_view.page_num + 1 \/ prev_view.page_num = view.page_num + 1))
       => Range(view.rows) \cap Range(prev_view.rows) = {}

C6_Witness ==
    /\ view # NoView /\ prev_view # NoView
    /\ prev_view.page_num = 1 /\ view.page_num = 2
    /\ Len(prev_view.rows) = prev_view.page_size
    /\ view.rows # <<>>

(* C7: a Custom Query statement that fails leaves every table with the     *)
(* rows it had before the statement was submitted, and the database's      *)
(* error message is shown to the operator.                                 *)
C7_FailedQueryRolledBack ==
    [][(run'.handler = "admin" /\ run'.click = "execute" /\ run'.executed /\ run'.error)
       => /\ tables' = tables
          /\ Msg("Query execution error", "", run'.e) \in ui']_vars

C7_Witness ==
    /\ run.handler = "admin" /\ run.click = "execute" /\ run.executed /\ run.error
    /\ Len(run.custom_query.stmts) = 2
    /\ run.custom_query.stmts[1].op = "delete"
    /\ tables[run.custom_query.stmts[1].table] # <<>>
    /\ run.e = "duplicate key"

(* C8 as stated: after a statement that succeeds, a SELECT text gives the  *)
(* operator the fetched rows with their column names and any other text    *)
(* gives the success indicator: the text decides.                          *)
C8_TextDecides ==
    (run.handler = "admin" /\ run.click = "execute" /\ run.executed /\ ~run.error)
    => IF IsSelectText(run.custom_query)
       THEN run.result.rows # <<>> =>
               /\ result_df.shown /\ result_df.rows = run.result.rows
               /\ result_df.columns = Columns
       ELSE SuccessIndicator \in ui

(* C8 amended: a statement that succeeds is committed whatever its text;   *)
(* the Query Type selector decides what is shown: with SELECT (Read) and a *)
(* result of at least one row, the fetched rows with their column names    *)
(* and no success indicator; with any other Query Type the success         *)
(* indicator and no rows, also when the text is a SELECT.                  *)
C8_SelectorDecides ==
    [][(run'.handler = "admin" /\ run'.click = "execute" /\ run'.executed /\ ~run'.error)
       => /\ tables' = SessionExecute(tables, run'.custom_query.stmts).tables
          /\ (run'.query_type = "SELECT (Read)" /\ run'.result.returns_rows
              /\ run'.result.rows # <<>>)
             => /\ result_df'.shown /\ result_df'.rows = run'.result.rows
                /\ result_df'.columns = Columns
                /\ SuccessIndicator \notin ui'
          /\ run'.query_type # "SELECT (Read)"
             => /\ SuccessIndicator \in ui'
                /\ ~result_df'.shown]_vars

C8_Witness ==
    /\ run.handler = "admin" /\ run.click = "execute" /\ run.executed /\ ~run.error
    /\ IsSelectText(run.custom_query)
    /\ run.result.rows # <<>>
    /\ run.query_type = "DELETE (Remove)"
    /\ SuccessIndicator \in ui
    /\ ~result_df.shown

(* C1 as stated: when the query of exactly one metric fails, that metric   *)
(* is returned as 0 and each of the other four with the value its own      *)
(* query yields on the current database, and the call does not raise.      *)
C1_FailedMetricDefaultsToZero ==
    (run.handler = "dashboard" /\ run.failing \in MetricKeys)
    => /\ ~metrics.raised
       /\ DOMAIN metrics.value = MetricKeys
       /\ metrics.value[run.failing].v = 0
       /\ \A k \in MetricKeys \ {run.failing} : metrics.value[k] = MetricValue(biz, k)

(* The previous-period and current-period values of the four growth rates  *)
(* of the dataframe in data.                                               *)
GrowthNames == {"revenue_growth", "order_growth", "customer_growth", "aov_growth"}
PreviousValue(g) ==
    LET prev == PreviousData(data.rows)
    IN CASE g = "revenue_growth" -> RevenueOf(data, prev)
         [] g = "order_growth" -> OrdersOf(prev)
         [] g = "customer_growth" -> CustomersOf(prev)
         [] OTHER -> AovOf(data, prev)
CurrentValue(g) ==
    LET cur == CurrentData(data.rows)
    IN CASE g = "revenue_growth" -> RevenueOf(data, cur)
         [] g = "order_growth" -> OrdersOf(cur)
         [] g = "customer_growth" -> CustomersOf(cur)
         [] OTHER -> AovOf(data, cur)
HasPeriods == data.rows # <<>> /\ "date" \in data.columns

(* C4: every growth rate get_kpi_metrics returns is a finite number, and   *)
(* it is exactly 0 whenever its previous-period denominator is 0, whatever *)
(* the current-period value.                                               *)
C4_ZeroDenominatorGivesZero ==
    kpi.returned
    => \A g \in GrowthNames :
          /\ IsFinite(kpi.value[g])
          /\ (HasPeriods /\ PreviousValue(g) = Num(0)) => kpi.value[g] = Num(0)

C4_Witness ==
    /\ kpi.returned /\ HasPeriods
    /\ PreviousData(data.rows) # <<>>
    /\ PreviousValue("revenue_growth") = Num(0)
    /\ CurrentValue("revenue_growth") # Num(0)
    /\ PreviousValue("customer_growth") = Num(0)
    /\ CurrentValue("customer_growth") # Num(0)
    /\ kpi.value["revenue_growth"] = Num(0)
    /\ kpi.value["customer_growth"] = Num(0)

(* C5 as stated: when both periods contain rows and the previous-period    *)
(* value is not zero (a negative previous revenue included), the growth    *)
(* returned is (current - previous) / previous * 100.                      *)
C5_GrowthFormula ==
    (kpi.returned /\ HasPeriods /\ PreviousData(data.rows) # <<>>)
    => \A g \in GrowthNames :
          (PreviousValue(g) # Num(0) /\ (g = "customer_growth" => "customer" \in data.columns))
          => kpi.value[g] = GrowthUnguarded(CurrentValue(g), PreviousValue(g))

(* The restore runs and their documents. *)
IsRestoreRun == run.handler = "backup" /\ run.click = "restore"
Entries == uploaded_backup.entries
WellFormed(doc) ==
    \A i \in 1..Len(doc.entries) :
       \A j \in 1..Len(doc.entries[i].records) :
          /\ doc.entries[i].records[j].dict
          /\ RecordStorable(doc.entries[i].records[j].fields)
RecordRows(records) == [j \in 1..Len(records) |-> RecordRow(records[j].fields)]
Stringified(rows) == [j \in 1..Len(rows) |-> [c \in Columns |-> JsonDefault(rows[j][c])]]
TwoTableDoc ==
    [made |-> TRUE, entries |-> <<[table |-> "customers", records |-> <<AnnRecord>>],
                                  [table |-> "employees", records |-> <<AnnRecord>>]>>]

(* C2 as stated: after a restore of a well-formed document during which    *)
(* the database accepts every statement, each table the document names     *)
(* holds exactly the document's records, one row per record, whatever it   *)
(* held before.                                                            *)
C2_RestoreReplaces ==
    (IsRestoreRun /\ WellFormed(uploaded_backup) /\ run.fails = {})
    => \A i \in 1..Len(Entries) : tables[Entries[i].table] = RecordRows(Entries[i].records)

(* C3 as stated: restoring the document of a backup that fetched every row *)
(* of T, onto T emptied in between, gives T its rows of the time of the    *)
(* backup, up to the string form of dates and decimals.                    *)
C3_RoundTrip ==
    [][(/\ run'.handler = "backup" /\ run'.click = "restore" /\ run'.fails = {}
        /\ backup_json # NoDoc
        /\ uploaded_backup'.entries = backup_json.entries)
       => \A i \in 1..Len(backup_json.entries) :
             LET T == backup_json.entries[i].table
             IN (/\ tables[T] = <<>>
                 /\ Len(backup_json.entries[i].records) = Len(backup_json.source[T]))
                => Stringified(tables'[T]) = Stringified(backup_json.source[T])]_vars

(* C9 as stated: a restore reports which tables succeeded; a table is      *)
(* listed as restored iff the database accepted its DELETE and each of its *)
(* INSERTs, and a table with a failed statement is reported as failed by   *)
(* name.                                                                   *)
C9_ReportMatchesStatements ==
    (IsRestoreRun /\ WellFormed(uploaded_backup))
    => /\ \/ Msg("Successfully restored tables", "", "") \in ui
          \/ Msg("No tables were restored successfully.", "", "") \in ui
       /\ \A i \in 1..Len(Entries) :
             LET T == Entries[i].table
                 accepted == /\ <<"delete", T>> \notin run.fails
                             /\ (Entries[i].records # <<>> => <<"insert", T>> \notin run.fails)
             IN /\ (\E k \in 1..Len(restored_tables) : restored_tables[k] = T) <=> accepted
                /\ ~accepted => \E m \in ui : m.msg = "Error restoring" /\ m.about = T

(* C10 as stated: every statement of a restore is committed on its own, so *)
(* the restore of a two-table document during which the INSERTs of the     *)
(* first table fail ends with the first table emptied and not reloaded and *)
(* the second table holding exactly its document records.                  *)
C10_PartialRestore ==
    (IsRestoreRun /\ uploaded_backup = TwoTableDoc /\ run.fails = {<<"insert", "customers">>})
    => /\ tables["customers"] = <<>>
       /\ tables["employees"] = RecordRows(TwoTableDoc.entries[2].records)

(* C11: the low_stock_items metric is the number of inventory rows whose   *)
(* current_stock is at most their reorder_point: a row at its reorder      *)
(* point is counted, a row above it is not.                                *)
C11_LowStockCount ==
    (run.handler = "dashboard" /\ run.failing = "none")
    => /\ metrics.value["low_stock_items"].t = "int"
       /\ metrics.value["low_stock_items"].v =
             Cardinality({ i \in 1..Len(biz.inventory) :
                             \/ biz.inventory[i].current_stock < biz.inventory[i].reorder_point
                             \/ biz.inventory[i].current_stock = biz.inventory[i].reorder_point })

C11_Witness ==
    /\ run.handler = "dashboard" /\ run.failing = "none"
    /\ Len(biz.inventory) = 2
    /\ \E i \in 1..2 : biz.inventory[i].sku = "AT-POINT"
    /\ \E i \in 1..2 : biz.inventory[i].sku = "LAP-001"
    /\ metrics.value["low_stock_items"] = IntV(1)

(* The backup runs. *)
IsBackupRun == run.handler = "backup" /\ run.click = "backup"

(* C12 as stated: after a backup whose fetches all succeed, the document   *)
(* has one entry per selected table and none for another table, each entry *)
(* holds exactly the table's current rows, one record per row keyed by     *)
(* column name (dates and decimals in string form), and no table has       *)
(* changed.                                                                *)
C12_BackupHoldsRows ==
    (IsBackupRun /\ run.backup_tables # <<>> /\ run.fetch_fails = {})
    => /\ backup_json.made
       /\ Len(backup_json.entries) = Len(run.backup_tables)
       /\ \A i \in 1..Len(backup_json.entries) :
             LET T == backup_json.entries[i].table
             IN /\ T = run.backup_tables[i]
                /\ Len(backup_json.entries[i].records) = Len(tables[T])
                /\ \A j \in 1..Len(tables[T]) :
                      /\ backup_json.entries[i].records[j].dict
                      /\ backup_json.entries[i].records[j].fields = Stringified(tables[T])[j]
       /\ tables = backup_json.source

(* C13 as stated: when the fetch of one selected table fails during a      *)
(* backup, the failure is shown as that table's, every other selected      *)
(* table is backed up, and the document has an entry only for the tables   *)
(* whose rows were fetched.                                                *)
C13_FailedTableHasNoEntry ==
    (IsBackupRun /\ run.fetch_fails # {})
    => /\ \A T \in run.fetch_fails : \E m \in ui : m.about = T
       /\ \A i \in 1..Len(run.backup_tables) :
             run.backup_tables[i] \notin run.fetch_fails
             => \E k \in 1..Len(backup_json.entries) :
                   /\ backup_json.entries[k].table = run.backup_tables[i]
                   /\ Len(backup_json.entries[k].records) = Len(tables[run.backup_tables[i]])
       /\ \A k \in 1..Len(backup_json.entries) :
             backup_json.entries[k].table \notin run.fetch_fails

(* C14: every open session belongs to a with-block that is still running: *)
(* once a block has ended, by return or by exception, its session is       *)
(* closed.                                                                 *)
C14_SessionsClosed ==
    /\ \A s \in sessions : pc[s.user].at = s.op
    /\ \A u \in Users : pc[u].at = Idle => ~\E s \in sessions : s.user = u

C14_Witness ==
    /\ pc["u1"] = [at |-> Idle, last_exit |-> "exception"]
    /\ pc["u2"].at = "restore" /\ pc["u2"].last_exit = "return"
    /\ sessions = {[user |-> "u2", op |-> "restore"]}

(* C15: a run in which initialization failed shows nothing after the       *)
(* failure (no login form, no business metrics query, no module content),  *)
(* and over the whole session the failure is reported in one run only.     *)
C15_InitFailureFatalOnce ==
    /\ ReportsInitError(app) =>
          \A i \in 1..Len(app.shown) : app.shown[i] \notin AfterInit
    /\ app.reports \in {0, 1}

(* C16: whenever the Custom Query tab is reached with a text that is not   *)
(* blank, the text is executed whatever the Query Type selector and the    *)
(* selected table are; it fails only when the database raises, and when it *)
(* does not fail its effects on every table it names are committed.        *)
C16_ExecutorUnrestricted ==
    [][(/\ run'.handler = "admin" /\ run'.click = "execute"
        /\ ~run'.custom_query.blank /\ ConnectionError \cap ui' = {})
       => /\ run'.executed
          /\ run'.error => \/ ~SessionExecute(tables, run'.custom_query.stmts).ok
                           \/ run'.e = "database error"
          /\ ~run'.error
             => tables' = SessionExecute(tables, run'.custom_query.stmts).tables]_vars

C16_Witness ==
    /\ run.handler = "admin" /\ run.click = "execute" /\ run.executed /\ ~run.error
    /\ run.query_type = "SELECT (Read)" /\ run.selected_table = "customers"
    /\ Len(run.custom_query.stmts) = 2
    /\ run.custom_query.stmts[1] = Delete("customers")
    /\ run.custom_query.stmts[2].op = "insert"
    /\ run.custom_query.stmts[2].table = "employees"
    /\ tables["customers"] = <<>>
    /\ Len(tables["employees"]) = 2
    /\ tables["employees"][2] = run.custom_query.stmts[2].row

(* C17: with D the latest date and the days up to D that each window       *)
(* admits: the two windows are disjoint and hold the same number of days,  *)
(* a row is in a period exactly when its date is in that window, every day *)
(* less than 60 days before D is in one of the windows, and no day more    *)
(* than 60 days before D is in either.                                     *)
C17_PeriodWindows ==
    (kpi.returned /\ "date" \in data.columns /\ data.rows # <<>>)
    => LET D == MaxDate(data.rows)
           days == (D - 3 * WindowDays)..D
           cur == { day \in days : InCurrent(data.rows, day) }
           prev == { day \in days : InPrevious(data.rows, day) }
       IN /\ cur \cap prev = {}
          /\ Cardinality(cur) = Cardinality(prev)
          /\ \A r \in Range(data.rows) :
                /\ r \in Range(CurrentData(data.rows)) <=> r.date \in cur
                /\ r \in Range(PreviousData(data.rows)) <=> r.date \in prev
          /\ \A day \in days :
                /\ D - day < 2 * WindowDays => day \in cur \cup prev
                /\ D - day > 2 * WindowDays => day \notin cur \cup prev

(* C18: once both users' restores of the customers table have ended, the   *)
(* table holds the records of one of the two documents.                    *)
C18_LastRestoreWins ==
    (\A u \in Users : pc[u].at = "done")
    => \E u \in Users :
          tables["customers"] = RecordRows(pc[u].uploaded.entries[1].records)

(* C19: the page query reads the table as it is when it runs, while the    *)
(* total and the page range shown with it are those of the earlier         *)
(* COUNT query: nothing holds the table still between the two.             *)
C19_CountThenFetch ==
    [][(pc["u1"].at = "counted" /\ pc'["u1"].at = Idle /\ ~view'.error)
       => /\ view'.total_count = pc["u1"].total_count
          /\ view'.total_pages =
                (view'.total_count + view'.page_size - 1) \div view'.page_size
          /\ view'.page_num \in 1..Max(1, view'.total_pages)
          /\ view'.rows = LimitOffset(tables'[view'.table], view'.page_size,
                                      (view'.page_num - 1) * view'.page_size)]_vars

(* A page number within 1..total_pages whose page came back empty. *)
C19_Witness ==
    /\ pc["u1"].at = Idle /\ pc["u1"].last_exit = "return"
    /\ view # NoView /\ ~view.error
    /\ view.page_num \in 1..view.total_pages
    /\ view.rows = <<>>
    /\ view.total_count # Len(tables[view.table])

(* C20: in a database operation no statement that failed is issued again,  *)
(* outside a restore the failed statement is the last one the operation    *)
(* issues, and a failure is shown to the user.                             *)
ErrorTexts == {"Error fetching data from", "Query execution error",
               "Error getting business metrics"}
C20_NoRetry ==
    run.handler = "operation"
    => /\ \A i \in 1..Len(run.issued) : \A j \in 1..Len(run.issued) :
             (i < j /\ ~run.issued[i].ok) => run.issued[j].stmt # run.issued[i].stmt
       /\ run.op # "restore"
          => \A i \in 1..Len(run.issued) : ~run.issued[i].ok => i = Len(run.issued)
       /\ (\E i \in 1..Len(run.issued) : ~run.issued[i].ok)
          => \E m \in ui : m.msg \in ErrorTexts

C20_Witness ==
    /\ run.handler = "operation" /\ run.op = "get_business_metrics"
    /\ Len(run.issued) = 3
    /\ run.issued[3] = [stmt |-> <<"metric", "low_stock_items">>, ok |-> FALSE]
    /\ run.issued[1].ok /\ run.issued[2].ok
    /\ Msg("Error getting business metrics", "", "database error") \in ui

(* C21: Update Deal gives the chosen deal the chosen stage whatever stage  *)
(* it had and leaves the other deals alone, and every deal's stage is      *)
(* always one of the six.                                                  *)
C21_AnyStageToAnyStage ==
    [][(run'.handler = "sales" /\ session_state'.sales_data.set)
       => /\ \A i \in 1..Len(session_state'.sales_data.deals) :
                session_state'.sales_data.deals[i].stage \in Stages
          /\ run'.click = "Update Deal"
             => \A i \in 1..Len(session_state.sales_data.deals) :
                   /\ session_state'.sales_data.deals[i].name
                         = session_state.sales_data.deals[i].name
                   /\ session_state'.sales_data.deals[i].stage
                         = IF session_state.sales_data.deals[i].name = run'.deal_to_update
                           THEN run'.new_stage
                           ELSE session_state.sales_data.deals[i].stage]_vars

(* The deal that started as Closed Won has been moved to Lead. *)
C21_Witness ==
    /\ run.handler = "sales" /\ run.click = "Update Deal"
    /\ run.deal_to_update = "EduTech Training Module" /\ run.new_stage = "Lead"
    /\ session_state.sales_data.deals[4].stage = "Lead"
    /\ session_state.sales_data.deals[2].stage = "Closed Lost"

(* C29: a run of the Sales category leaves the customers and the leads it  *)
(* found in place, adding at most one at the end, and the ids of the       *)
(* customers are pairwise distinct, as are those of the leads.             *)
IsPrefix(a, b) == Len(a) <= Len(b) /\ SubSeq(b, 1, Len(a)) = a
Distinct(list) == \A i \in 1..Len(list) : \A j \in 1..Len(list) : i # j => list[i] # list[j]
C29_AppendOnlyUniqueIds ==
    [][(run'.handler = "sales" /\ session_state.sales_data.set)
       => /\ IsPrefix(session_state.sales_data.customers, session_state'.sales_data.customers)
          /\ IsPrefix(session_state.sales_data.leads, session_state'.sales_data.leads)
          /\ Distinct(session_state'.sales_data.customers)
          /\ Distinct(session_state'.sales_data.leads)]_vars

C29_Witness ==
    /\ run.handler = "sales" /\ run.click = "Add Lead"
    /\ Len(session_state.sales_data.customers) = 5
    /\ session_state.sales_data.customers[5] = Id("CUST", 5)
    /\ Len(session_state.sales_data.leads) = 4
    /\ session_state.sales_data.leads[4] = Id("LEAD", 4)

(* C30: whenever a run of the Finance category reads                       *)
(* st.session_state.finance_data, the entry is set, and the run shows the  *)
(* modules that read it.                                                   *)
C30_FinanceDataLoaded ==
    (run.handler = "finance" /\ run.read)
    => /\ session_state.finance_data.set
       /\ ~run.raised
       /\ \A i \in 2..4 : \E j \in 1..Len(run.shown) : run.shown[j] = FinanceTabs[i]

(* C28: a run that ends unauthenticated has run no business metrics query  *)
(* and shown no module content; a run that takes the session from          *)
(* authenticated to unauthenticated (the Logout button) clears username,   *)
(* role and selected category; and a run that starts unauthenticated shows *)
(* content only after the login form and a successful login.               *)
Content == {"business metrics query", "module content"}
ShowsContent(a) == \E i \in 1..Len(a.shown) : a.shown[i] \in Content
C28_AuthenticationGate ==
    [][/\ ~app'.authenticated => ~ShowsContent(app')
       /\ (app.authenticated /\ ~app'.authenticated)
          => /\ app'.username = "None" /\ app'.user_role = "None"
             /\ app'.selected_category = NoCategory
       /\ (~app.authenticated /\ ShowsContent(app'))
          => /\ app'.authenticated /\ app'.username \in {"admin", "demo"}
             /\ \E i \in 1..Len(app'.shown) :
                   /\ app'.shown[i] = "login form"
                   /\ \A j \in 1..i : app'.shown[j] \notin Content]_vars

(* Logged in, logged out, and the next run stopped at the login form. *)
C28_Witness ==
    /\ app.runs = 3 /\ app.database_initialized
    /\ ~app.authenticated /\ app.username = "None" /\ app.user_role = "None"
    /\ app.selected_category = NoCategory
    /\ app.shown = <<"login form">> /\ app.stopped

(* The database from its creation on: initialisation, the forms that      *)
(* write, the pages that read, the console and the restore.  The forms'    *)
(* keys are the first sample key and one no sample has.                    *)
FormKeys == {1, 9}
NoBizRows == [customers |-> <<>>, invoices |-> <<>>, inventory |-> <<>>,
              employees |-> <<>>, projects |-> <<>>]
AuditDoc == [made |-> TRUE,
             entries |-> <<[table |-> "audit_log", records |-> <<AnnRecord>>]>>]
InitDatabase ==
    /\ tables = [t \in DbTables |-> <<>>]
    /\ IdleAdmin
    /\ biz = NoBizRows /\ metrics = NoMetrics /\ data = NoData /\ kpi = NoKpi

InitializeRun == \E fail \in SampleFails : InitializeDatabaseRun(fail)
FormRun ==
    \E t \in {"customers", "audit_log"}, db_ok \in BOOLEAN :
       \E k \in IF t = "customers" THEN FormKeys ELSE {1} :
          show_database_admin(t, 25, 1, "add", "SELECT (Read)",
                              [blank |-> TRUE, stmts |-> <<>>], DbRow(k),
                              IF db_ok THEN {} ELSE {"execute"})
AddAccountRun == \E db_ok \in BOOLEAN : AddAccount(1, db_ok)
MetricsRun ==
    /\ metrics = NoMetrics
    /\ \E failing \in {"none", "total_revenue"} : Dashboard(failing)
PageFetchRun ==
    /\ view = NoView
    /\ show_database_admin("audit_log", 25, 1, "none", "SELECT (Read)",
                           [blank |-> TRUE, stmts |-> <<>>], NoRow, {})
DbBackupRun ==
    /\ backup_json = NoDoc
    /\ show_database_backup("backup", <<"audit_log">>, {}, NoDoc, {})
ConsoleInsertRun ==
    show_database_admin("audit_log", 25, 1, "execute", "INSERT (Create)",
                        [blank |-> FALSE, stmts |-> <<Insert("audit_log", DbRow(1))>>],
                        NoRow, {})
DbRestoreRun ==
    /\ uploaded_backup = NoDoc
    /\ show_database_backup("restore", <<>>, {}, AuditDoc, {})
NextDatabase ==
    \/ InitializeRun \/ FormRun \/ AddAccountRun \/ MetricsRun \/ PageFetchRun
    \/ DbBackupRun \/ ConsoleInsertRun \/ DbRestoreRun
SpecDatabase == InitDatabase /\ [][NextDatabase]_vars

(* C23: get_business_metrics returns all five keys or none, and with none  *)
(* the Dashboard shows 0 projects, $0.00 revenue, 0 employees and          *)
(* Inventory Status Good.                                                  *)
C23_AllKeysOrNone ==
    run.handler = "dashboard"
    => /\ DOMAIN metrics.value = MetricKeys \/ DOMAIN metrics.value = {}
       /\ DOMAIN metrics.value = {}
          => /\ metrics.cards.col1.value = Str(IntV(0))
             /\ metrics.cards.col2.value = Money(IntV(0))
             /\ metrics.cards.col3.value = Str(IntV(0))
             /\ metrics.cards.col4 = [label |-> "Inventory Status", value |-> "Good"]

(* The third query fails on a database whose first two queries give 2 and  *)
(* a nonzero sum.                                                          *)
C23_Witness ==
    /\ run.handler = "dashboard" /\ run.failing = "low_stock_items"
    /\ MetricValue(biz, "active_customers") = IntV(2)
    /\ MetricValue(biz, "total_revenue").v # 0
    /\ MetricValue(biz, "active_projects") = IntV(1)
    /\ DOMAIN metrics.value = {}
    /\ metrics.cards.col1.value = Str(IntV(0))

(* C22: no handler of the application adds a row to audit_log: the table   *)
(* changes only in a run of the SQL console or in a restore whose document *)
(* names it, and stays empty through initialisation, form inserts, metrics *)
(* queries, page fetches and backups.                                      *)
NamesAuditLog(doc) == \E i \in 1..Len(doc.entries) : doc.entries[i].table = "audit_log"
C22_AuditLogNeverPopulated ==
    [][/\ tables'["audit_log"] # tables["audit_log"]
          => \/ run'.handler = "admin" /\ run'.click = "execute"
             \/ /\ run'.handler = "backup" /\ run'.click = "restore"
                /\ NamesAuditLog(uploaded_backup')
       /\ (run'.handler \in {"initialize", "dashboard", "finance"}
           \/ (run'.handler = "admin" /\ run'.click \in {"add", "none"})
           \/ (run'.handler = "backup" /\ run'.click = "backup"))
          => tables'["audit_log"] = <<>> \/ tables["audit_log"] # <<>>]_vars

(* The operator opens Add Record for audit_log after the sample data, a    *)
(* customer form, the metrics and a backup: the table is still empty.      *)
C22_Witness ==
    /\ run.handler = "admin" /\ run.click = "add" /\ run.selected_table = "audit_log"
    /\ Len(tables["customers"]) = 4 /\ Len(tables["projects"]) = 3
    /\ metrics # NoMetrics /\ backup_json.made
    /\ tables["audit_log"] = <<>>

(* C27: insert_sample_data adds nothing when customers has a row;          *)
(* otherwise it adds the sample rows of all five tables or none of them;   *)
(* a run that follows a run which committed or found data adds nothing.    *)
AddsAllSamples ==
    /\ \A t \in Range(SampleTables) :
          /\ IsPrefix(tables[t], tables'[t])
          /\ Len(tables'[t]) = Len(tables[t]) + SampleSize(t)
    /\ tables'["audit_log"] = tables["audit_log"]
C24_SuccessOnlyWhenCommitted ==
    (run.handler = "admin" /\ run.click = "execute" /\ SuccessIndicator \in ui)
    => run.executed /\ ~run.error

(* C25: a restore leaves every table that is not a top-level key of the    *)
(* uploaded document with the rows it had, whatever happens to the tables  *)
(* the document names.                                                     *)
Named(doc, t) == \E i \in 1..Len(doc.entries) : doc.entries[i].table = t
C25_RestoreFrame ==
    [][(run'.handler = "backup" /\ run'.click = "restore")
       => \A t \in DOMAIN tables :
             ~Named(uploaded_backup', t) => tables'[t] = tables[t]]_vars

(* A restore of a document that names customers only, on a database whose  *)
(* employees table has rows.                                               *)
C25_Witness ==
    /\ run.handler = "backup" /\ run.click = "restore"
    /\ Named(uploaded_backup, "customers") /\ ~Named(uploaded_backup, "employees")
    /\ Len(tables["employees"]) = 2

(* C26: the offset of a page is (page_number - 1) * page_size, total_pages *)
(* is the least number of pages of page_size rows that hold total_count    *)
(* rows, the page number lies in 1..max(1, total_pages), and on a table    *)
(* that no one writes the pages 1..total_pages, one after the other, are   *)
(* the rows of the table, each row once.                                   *)
RECURSIVE AllPages(_, _, _)
AllPages(t, page_size, k) ==
    IF k = 0 THEN <<>>
    ELSE AllPages(t, page_size, k - 1) \o ViewData(tables, t, page_size, k, TRUE).view.rows
IsCeil(pages, count, size) == pages * size >= count /\ (pages - 1) * size < count
C26_PaginationCoverage ==
    /\ (view # NoView /\ ~view.error)
       => /\ view.offset = (view.page_num - 1) * view.page_size
          /\ IsCeil(view.total_pages, view.total_count, view.page_size)
          /\ view.page_num \in 1..Max(1, view.total_pages)
          /\ AllPages(view.table, view.page_size, view.page_num - 1) \o view.rows
             = SubSeq(tables[view.table], 1, Len(view.rows) + view.offset)
    /\ \A t \in TableNames, page_size \in PageSizes :
          /\ AllPages(t, page_size, TotalPages(Len(tables[t]), page_size)) = tables[t]
          /\ IsCeil(TotalPages(Len(tables[t]), page_size), Len(tables[t]), page_size)

(* The second and last page of twelve rows at ten rows a page. *)
C26_Witness ==
    /\ view # NoView /\ ~view.error
    /\ view.page_size = 10 /\ view.total_count = 12
    /\ view.total_pages = 2 /\ view.page_num = 2 /\ view.offset = 10
    /\ Len(view.rows) = 2

====
